---------------------------- MODULE Spec2Model ----------------------------
(***************************************************************************)
(* Chan-theory analysis pipeline of the stock-collection repository:       *)
(* fractal detection, stroke construction, pivot detection, the           *)
(* three-point signal classifier, the interval analyzer, the monitors, the *)
(* API pool and the batch analysers, modelled from the Python sources.     *)
(*                                                                         *)
(* Prices are integers (the sources compare floats; every comparison the   *)
(* model makes is between values taken from the bars, or between integer   *)
(* multiples of them, so no rounding is involved).  Python lists are       *)
(* 0-based: a Python index k is element k + 1 of the TLA+ sequence.        *)
(***************************************************************************)
EXTENDS Integers, Sequences, FiniteSets, TLC

VARIABLES
    bars,            \* the caller's bar list (list of dict)
    op,              \* the operation that has been applied ("none" at first)
    fractals,        \* result of ChanTheoryEngine.detect_fractals
    strokes,         \* result of ChanTheoryEngine.detect_strokes
    rec_fractals,    \* result of FractalRecognizer.recognize_from_bars
    self_fractals,   \* FractalRecognizer.fractals (accumulated by the object)
    rec_strokes,     \* result of StrokeRecognizer.recognize_from_bars
    self_strokes,    \* StrokeRecognizer.strokes (accumulated by the object)
    min_bars,        \* PivotDetector.min_bars (constructor argument)
    pivots,          \* result of PivotDetector.detect_from_bars
    self_pivots,     \* PivotDetector.pivots (accumulated by the object)
    pivot_filter,    \* detect_from_bars: its argument direction ('any' by default)
    sig_fractals,    \* analyze_bars: its local list fractals (_find_fractals)
    signals,         \* result of ChanTheory3PointSignalGenerator.analyze_bars
    self_signals,    \* ChanTheory3PointSignalGenerator.signals (accumulated)
    bars_1m,         \* _identify_third_buy_point: the fast series
    bars_5m,         \* _identify_third_buy_point: the mid series
    bars_60m,        \* _identify_third_buy_point: the slow series
    third_signals,   \* result of _identify_third_buy_point
    timeframe,       \* aggregate_bars: its argument timeframe_minutes
    aggregated,      \* result of IntervalAnalyzer.aggregate_bars
    fast_bars,       \* analyze_multilevel: its local window fast_bars
    mid_bars,        \* analyze_multilevel: its local window mid_bars
    slow_bars,       \* analyze_multilevel: its local window slow_bars
    analysis,        \* result of IntervalAnalyzer.analyze_multilevel
    analysis_results, \* IntervalAnalyzer.analysis_results (accumulated)
    centers,         \* result of ChanTheoryEngine.detect_centers
    minute_bars,     \* table minute_bars of the database: symbol -> its rows by minute
    last_checked,    \* FractalMonitor.last_checked (dict symbol -> last index)
    recent_fractals, \* FractalMonitor.recent_fractals (dict symbol -> fractals)
    new_fractals,    \* result of FractalMonitor.check_for_new_fractals
    alerts,          \* the fractals monitor_continuous handed to print_alert
    watchlist_5f,    \* RealtimeMonitor.watchlist_5f (set of symbols)
    watchlist_1f,    \* RealtimeMonitor.watchlist_1f (set of symbols)
    sent_signals,    \* RealtimeMonitor.sent_signals (set of signal keys)
    email_notifier,  \* RealtimeMonitor.email_notifier is configured (not None)
    thread_pc,       \* where each monitor thread stands in its loop body
    thread_sig,      \* the signal sig each monitor thread is working on
    handled,         \* per signal key: times it passed the de-duplication test
    emails,          \* per signal key: send_signal_email calls made for it
    apis,            \* APIPool.apis (list of dict with id and enabled)
    current_index,   \* APIPool.current_index
    api_lock,        \* APIPool.api_lock (threading.Lock): "free" or "held"
    stats,           \* APIPool.stats: api id -> error_count and cooldown
    retry_pc,        \* where call_with_retry stands
    attempt,         \* call_with_retry: its loop variable attempt
    func_calls,      \* times call_with_retry has called the wrapped function
    retry_result,    \* what call_with_retry returned
    batch_system,    \* which batch analysis runs: "integrated" or "parallel"
    batch_index,     \* analyze_multiple_symbols: position of its loop in symbols
    batch_results,   \* the dict results of the batch analysis
    self_all_signals, \* ChanTradingSystemIntegrated.all_signals
    worker_pc,       \* where the pool thread of each symbol stands
    worker_result,   \* what _analyze_symbol_sync returned for each symbol
    trade_signals    \* TradingSignalGenerator.signals (accumulated)

vars == <<bars, op, fractals, strokes, rec_fractals, self_fractals,
          rec_strokes, self_strokes, min_bars, pivots, self_pivots, pivot_filter,
          sig_fractals, signals, self_signals, bars_1m, bars_5m, bars_60m,
          third_signals, timeframe, aggregated, fast_bars, mid_bars,
          slow_bars,
          analysis, analysis_results, centers, minute_bars, last_checked,
          recent_fractals, new_fractals, alerts, watchlist_5f, watchlist_1f,
          sent_signals, email_notifier, thread_pc, thread_sig, handled,
          emails, apis, current_index, api_lock, stats, retry_pc, attempt,
          func_calls, retry_result, batch_system, batch_index, batch_results,
          self_all_signals, worker_pc, worker_result, trade_signals>>

\* The results of the fractal, stroke, pivot and signal components.
pipeline_vars == <<fractals, strokes, rec_fractals, self_fractals, rec_strokes,
                   self_strokes, min_bars, pivots, self_pivots, pivot_filter,
                   sig_fractals, signals, self_signals>>

\* The variables of the 3rd-type detector and of the interval analyzer.
third_vars == <<bars_1m, bars_5m, bars_60m, third_signals>>
interval_vars == <<timeframe, aggregated, fast_bars, mid_bars,
                   slow_bars, analysis, analysis_results>>

\* The variables of the engine's centers, the monitors, the API pool and the
\* batch analysis.
monitor_vars == <<last_checked, recent_fractals, new_fractals, alerts>>
realtime_vars == <<watchlist_5f, watchlist_1f, sent_signals, email_notifier,
                   thread_pc, thread_sig, handled, emails>>
pool_vars == <<apis, current_index, api_lock, stats, retry_pc, attempt,
               func_calls, retry_result>>
batch_vars == <<batch_system, batch_index, batch_results, self_all_signals,
                worker_pc, worker_result, trade_signals>>
system_vars == <<centers, minute_bars, monitor_vars, realtime_vars, pool_vars,
                 batch_vars>>

-----------------------------------------------------------------------------
(* Bounds of the input space *)

MaxLen == 6          \* longest bar list of the fractal/stroke specification
ShortLen == 3        \* longest bar list whose prices range over 1..MaxPrice
MaxPrice == 4        \* prices of the short lists are 1..MaxPrice
PivotMaxLen == 5     \* longest bar list of the pivot specification
PivotMaxPrice == 2   \* prices of that specification are 1..PivotMaxPrice
SigMaxLen == 5       \* longest enumerated bar list of the signal specification
SigMaxPrice == 2     \* prices of those enumerated lists are 1..SigMaxPrice

-----------------------------------------------------------------------------
(* Bars *)

\* The symbol the bars carry when they are handed to an analysis.
FixtureSymbol == "TEST001"

\* A bar without its position: low <= close <= high.
Shape(h, l, c, v) == [high |-> h, low |-> l, close |-> c, volume |-> v]

\* Well-formed shapes over the prices 1..maxp; close and volume are not read by
\* the fractal and stroke code, they are fixed to the bar's low and to 1000.
HLShapes(maxp) ==
    {Shape(h, l, l, 1000) : h \in 1..maxp, l \in 1..maxp} \cap
    {s \in [high : 1..maxp, low : 1..maxp, close : 1..maxp, volume : {1000}] :
        s.low <= s.high}

\* The bar list built from a sequence of shapes: bar k (0-based) carries the
\* minute k, so that times are strictly increasing along the list.
MkBars(shapes) ==
    [k \in 1..Len(shapes) |->
        [minute |-> k - 1, symbol |-> FixtureSymbol,
         open |-> shapes[k].close, high |-> shapes[k].high,
         low |-> shapes[k].low, close |-> shapes[k].close,
         volume |-> shapes[k].volume]]

\* klines[k] of the Python code
At(s, k) == s[k + 1]

\* klines[a:b] of the Python code (0 <= a, b <= len)
Slice(s, a, b) == IF b <= a THEN <<>> ELSE SubSeq(s, a + 1, b)

RECURSIVE SeqMax(_)
SeqMax(s) == IF Len(s) = 1 THEN s[1]
             ELSE LET m == SeqMax(Tail(s)) IN IF s[1] > m THEN s[1] ELSE m

RECURSIVE SeqMin(_)
SeqMin(s) == IF Len(s) = 1 THEN s[1]
             ELSE LET m == SeqMin(Tail(s)) IN IF s[1] < m THEN s[1] ELSE m

Max2(a, b) == IF a > b THEN a ELSE b
Min2(a, b) == IF a < b THEN a ELSE b

Highs(s) == [k \in 1..Len(s) |-> s[k].high]
Lows(s) == [k \in 1..Len(s) |-> s[k].low]

-----------------------------------------------------------------------------
(* ChanTheoryEngine.detect_fractals  (chan_theory_engine.py) *)

IsTopAt_OneSided(klines, i) ==
    At(klines, i).high > At(klines, i - 1).high

IsTopAt(klines, i) ==
    /\ At(klines, i).high > At(klines, i - 1).high
    /\ At(klines, i).high > At(klines, i + 1).high

IsBottomAt_NonStrict(klines, i) ==
    /\ At(klines, i).low <= At(klines, i - 1).low
    /\ At(klines, i).low <= At(klines, i + 1).low

IsBottomAt(klines, i) ==
    /\ At(klines, i).low < At(klines, i - 1).low
    /\ At(klines, i).low < At(klines, i + 1).low

EngineFractal(klines, i, type) ==
    [time |-> At(klines, i).minute,
     price |-> IF type = "top" THEN At(klines, i).high ELSE At(klines, i).low,
     fractal_type |-> type,
     index |-> i]

RECURSIVE detect_fractals_loop(_, _, _)
detect_fractals_loop(klines, i, acc) ==
    IF i >= Len(klines) - 1 THEN acc
    ELSE IF IsTopAt(klines, i)
         THEN detect_fractals_loop(klines, i + 1,
                                   Append(acc, EngineFractal(klines, i, "top")))
         ELSE IF IsBottomAt(klines, i)
              THEN detect_fractals_loop(klines, i + 1,
                                   Append(acc, EngineFractal(klines, i, "bottom")))
              ELSE detect_fractals_loop(klines, i + 1, acc)

detect_fractals(klines) == detect_fractals_loop(klines, 1, <<>>)

-----------------------------------------------------------------------------
(* FractalRecognizer.recognize_from_bars  (fractal_recognition.py) *)

RecFractal(bs, i, type) ==
    [symbol |-> At(bs, i).symbol, minute |-> At(bs, i).minute,
     fractal_type |-> type, high |-> At(bs, i).high, low |-> At(bs, i).low,
     close |-> At(bs, i).close, idx |-> i]

RECURSIVE recognize_loop(_, _, _)
recognize_loop(bs, i, acc) ==
    IF i >= Len(bs) - 1 THEN acc
    ELSE IF IsTopAt(bs, i)
         THEN recognize_loop(bs, i + 1, Append(acc, RecFractal(bs, i, "top")))
         ELSE IF IsBottomAt(bs, i)
              THEN recognize_loop(bs, i + 1,
                                  Append(acc, RecFractal(bs, i, "bottom")))
              ELSE recognize_loop(bs, i + 1, acc)

recognize_from_bars(bs) ==
    IF Len(bs) < 3 THEN <<>> ELSE recognize_loop(bs, 1, <<>>)

-----------------------------------------------------------------------------
(* ChanTheoryEngine.detect_strokes  (chan_theory_engine.py) *)

EngineStroke(klines, start, end, dir) ==
    LET segment_klines == Slice(klines, start.index, end.index + 1)
    IN  [start_fractal |-> start, end_fractal |-> end, direction |-> dir,
         high |-> SeqMax(Highs(segment_klines)),
         low |-> SeqMin(Lows(segment_klines))]

\* The branch detect_strokes takes for an adjacent pair: "up", "down", or ""
\* when the pair gets no stroke.
stroke_direction_NoPriceCheck(start, end) ==
    IF start.fractal_type = end.fractal_type THEN ""
    ELSE IF start.fractal_type = "bottom" /\ end.fractal_type = "top" THEN "up"
         ELSE IF start.fractal_type = "top" /\ end.fractal_type = "bottom"
              THEN "down"
              ELSE ""

stroke_direction(start, end) ==
    IF start.fractal_type = end.fractal_type THEN ""
    ELSE IF start.fractal_type = "bottom" /\ end.fractal_type = "top"
         THEN IF end.price > start.price THEN "up" ELSE ""
         ELSE IF start.fractal_type = "top" /\ end.fractal_type = "bottom"
              THEN IF start.price > end.price THEN "down" ELSE ""
              ELSE ""

RECURSIVE detect_strokes_loop(_, _, _, _)
detect_strokes_loop(fs, klines, i, acc) ==
    IF i >= Len(fs) - 1 THEN acc
    ELSE LET start == At(fs, i)
             end == At(fs, i + 1)
             dir == stroke_direction(start, end)
         IN  IF dir = ""
             THEN detect_strokes_loop(fs, klines, i + 1, acc)
             ELSE detect_strokes_loop(fs, klines, i + 1,
                      Append(acc, EngineStroke(klines, start, end, dir)))

detect_strokes(fs, klines) == detect_strokes_loop(fs, klines, 0, <<>>)

-----------------------------------------------------------------------------
(* ChanTheoryEngine.detect_centers  (chan_theory_engine.py) *)

Min3(a, b, c) == Min2(Min2(a, b), c)
Max3(a, b, c) == Max2(Max2(a, b), c)

\* if center_high > center_low
center_valid_NonStrict(center_high, center_low) == center_high >= center_low

center_valid(center_high, center_low) == center_high > center_low

\* for i in range(len(strokes) - 2)
RECURSIVE detect_centers_loop(_, _, _)
detect_centers_loop(ss, i, acc) ==
    IF i >= Len(ss) - 2 THEN acc
    ELSE LET s1 == At(ss, i)
             s2 == At(ss, i + 1)
             s3 == At(ss, i + 2)
             center_high == Min3(s1.high, s2.high, s3.high)
             center_low == Max3(s1.low, s2.low, s3.low)
         IN  IF center_valid(center_high, center_low)
             THEN detect_centers_loop(ss, i + 1, Append(acc,
                      [high |-> center_high, low |-> center_low,
                       start_time |-> s1.start_fractal.time,
                       end_time |-> s3.end_fractal.time,
                       k_count |-> 3]))
             ELSE detect_centers_loop(ss, i + 1, acc)

detect_centers(ss) == detect_centers_loop(ss, 0, <<>>)

-----------------------------------------------------------------------------
(* StrokeRecognizer.recognize_from_bars  (stroke_recognition.py) *)

RecStroke(symbol, id, dir, current, next_frac) ==
    [symbol |-> symbol, stroke_id |-> id, direction |-> dir,
     start_fractal |-> current, end_fractal |-> next_frac,
     high |-> IF dir = "down" THEN current.high ELSE next_frac.high,
     low |-> IF dir = "down" THEN next_frac.low ELSE current.low,
     fractal_count |-> 2]

RECURSIVE stroke_recognize_loop(_, _, _, _, _)
stroke_recognize_loop(fs, symbol, i, stroke_id, acc) ==
    IF i >= Len(fs) - 1 THEN acc
    ELSE LET current == At(fs, i)
             next_frac == At(fs, i + 1)
         IN  IF current.fractal_type = "top" /\ next_frac.fractal_type = "bottom"
             THEN stroke_recognize_loop(fs, symbol, i + 1, stroke_id + 1,
                    Append(acc, RecStroke(symbol, stroke_id, "down",
                                          current, next_frac)))
             ELSE IF current.fractal_type = "bottom" /\ next_frac.fractal_type = "top"
                  THEN stroke_recognize_loop(fs, symbol, i + 1, stroke_id + 1,
                         Append(acc, RecStroke(symbol, stroke_id, "up",
                                               current, next_frac)))
                  ELSE stroke_recognize_loop(fs, symbol, i + 1, stroke_id, acc)

stroke_recognize_from_bars(bs, symbol) ==
    LET fs == recognize_from_bars(bs)
    IN  IF Len(fs) < 2 THEN <<>>
        ELSE stroke_recognize_loop(fs, symbol, 0, 1, <<>>)

-----------------------------------------------------------------------------
(* PivotDetector  (pivot_detection.py) *)

\* PivotDetector.__init__(min_bars=5)
DefaultMinBars == 5

\* The values of min_bars the detector is constructed with (--min-bars).
MinBarsChoices == {3, DefaultMinBars}

check_overlap_OneSided(bar1, bar2) == ~(bar1.high < bar2.low)

check_overlap(bar1, bar2) == ~(bar1.high < bar2.low \/ bar2.high < bar1.low)

check_all_overlap(bs) ==
    IF Len(bs) < 2 THEN FALSE
    ELSE \A i \in 1..Len(bs) : \A j \in (i + 1)..Len(bs) :
             check_overlap(bs[i], bs[j])

\* for end in range(i + min_bars - 1, len(bars)): the first end whose window
\* bars[i:end+1] overlaps pairwise, or -1 when the loop runs out (for/else).
RECURSIVE first_end(_, _, _)
first_end(bs, i, end) ==
    IF end >= Len(bs) THEN -1
    ELSE IF check_all_overlap(Slice(bs, i, end + 1)) THEN end
         ELSE first_end(bs, i, end + 1)


\* for extend_end in range(end + 1, len(bars)): grow the window while it keeps
\* overlapping pairwise, folding the new bar into high and low.
extend_window_Stop(bs, i, extend_end, w) == w

RECURSIVE extend_window(_, _, _, _)
extend_window(bs, i, extend_end, w) ==
    IF extend_end >= Len(bs) THEN w
    ELSE IF check_all_overlap(Slice(bs, i, extend_end + 1))
         THEN extend_window(bs, i, extend_end + 1,
                  [last_end |-> extend_end,
                   high |-> Max2(w.high, At(bs, extend_end).high),
                   low |-> Min2(w.low, At(bs, extend_end).low)])
         ELSE w

pivot_direction(bs, i, last_end) ==
    IF At(bs, i).close < At(bs, last_end).close THEN "up"
    ELSE IF At(bs, i).close > At(bs, last_end).close THEN "down"
         ELSE "none"

\* where the scan resumes after a window [i, last_end] was found (i = last_end)
resume_index_NextBar(i, last_end) == i + 1

resume_index(i, last_end) == last_end

\* if direction == 'any' or direction == piv_direction
direction_accepts_NoAny(direction, piv_direction) == direction = piv_direction

direction_accepts(direction, piv_direction) ==
    direction = "any" \/ direction = piv_direction

RECURSIVE detect_pivots_loop(_, _, _, _, _, _, _)
detect_pivots_loop(bs, symbol, direction, mb, i, pivot_id, acc) ==
    IF i > Len(bs) - mb THEN acc
    ELSE LET end == first_end(bs, i, i + mb - 1)
         IN  IF end = -1
             THEN detect_pivots_loop(bs, symbol, direction, mb, i + 1,
                                     pivot_id, acc)
             ELSE LET segment == Slice(bs, i, end + 1)
                      w == extend_window(bs, i, end + 1,
                               [last_end |-> end,
                                high |-> SeqMax(Highs(segment)),
                                low |-> SeqMin(Lows(segment))])
                      piv_direction == pivot_direction(bs, i, w.last_end)
                      pivot == [symbol |-> symbol, pivot_id |-> pivot_id,
                                direction |-> piv_direction,
                                start_minute |-> At(bs, i).minute,
                                end_minute |-> At(bs, w.last_end).minute,
                                high |-> w.high, low |-> w.low,
                                bar_count |-> w.last_end - i + 1]
                  IN  IF direction_accepts(direction, piv_direction)
                      THEN detect_pivots_loop(bs, symbol, direction, mb,
                               resume_index(i, w.last_end), pivot_id + 1,
                               Append(acc, pivot))
                      ELSE detect_pivots_loop(bs, symbol, direction, mb,
                               resume_index(i, w.last_end), pivot_id, acc)

detect_from_bars(bs, symbol, direction, mb) ==
    IF Len(bs) < mb THEN <<>>
    ELSE detect_pivots_loop(bs, symbol, direction, mb, 0, 1, <<>>)

-----------------------------------------------------------------------------
(* ChanTheory3PointSignalGenerator  (chan_theory_3point_signals.py) *)

\* self.pivot_threshold = 0.02, kept in percent: x * (1 + 0.02) is compared as
\* 100 * y against (100 + pivot_threshold_pct) * x.
pivot_threshold_pct == 2
\* self.pivot_min_bars = 5
pivot_min_bars == 5
\* _identify_second_buy_point: if len(bars) < 20
second_buy_min_bars == 20
\* _identify_second_buy_point: max(0, len(bars) - 50)
pivot_lookback == 50
\* analyze_bars: if len(bars) < 5
analyze_min_bars == 5

\* safe_value(bar, key): float(bar[key]); the bars of the model carry numbers
\* under every key, which float() leaves unchanged.
safe_high(bar) == bar.high
safe_low(bar) == bar.low
safe_close(bar) == bar.close

\* _is_fractal: "top", "bottom" or "" (no fractal)
is_fractal_type(bs, idx) ==
    IF idx < 1 \/ idx >= Len(bs) - 1 THEN ""
    ELSE LET prev_high == safe_high(At(bs, idx - 1))
             prev_low == safe_low(At(bs, idx - 1))
             curr_high == safe_high(At(bs, idx))
             curr_low == safe_low(At(bs, idx))
             next_high == safe_high(At(bs, idx + 1))
             next_low == safe_low(At(bs, idx + 1))
         IN  IF prev_low < curr_high /\ curr_high > next_high
                /\ curr_low > next_low
             THEN "top"
             ELSE IF prev_high > curr_low /\ curr_low < next_low
                     /\ curr_high < next_high
                  THEN "bottom"
                  ELSE ""

\* _find_fractals: list of (index, type, bar)
RECURSIVE find_fractals_loop(_, _, _)
find_fractals_loop(bs, i, acc) ==
    IF i >= Len(bs) - 1 THEN acc
    ELSE LET frac_type == is_fractal_type(bs, i)
         IN  IF frac_type # ""
             THEN find_fractals_loop(bs, i + 1,
                      Append(acc, [idx |-> i, type |-> frac_type,
                                   bar |-> At(bs, i)]))
             ELSE find_fractals_loop(bs, i + 1, acc)

find_fractals(bs) == find_fractals_loop(bs, 1, <<>>)

NoPivot == [found |-> FALSE]

\* _find_pivot(bars, start_idx, end_idx)
find_pivot(bs, start_idx, end_idx) ==
    IF end_idx - start_idx < pivot_min_bars THEN NoPivot
    ELSE LET segment == Slice(bs, start_idx, end_idx + 1)
             highs == [k \in 1..Len(segment) |-> safe_high(segment[k])]
             lows == [k \in 1..Len(segment) |-> safe_low(segment[k])]
         IN  IF Len(highs) = 0 THEN NoPivot
             ELSE LET max_high == SeqMax(highs)
                      min_low == SeqMin(lows)
                      pivot_range == max_high - min_low
                  IN  IF 100 * pivot_range < SeqMin(highs) * pivot_threshold_pct
                      THEN [found |-> TRUE, high |-> max_high, low |-> min_low,
                            bars |-> Len(segment), range |-> pivot_range]
                      ELSE NoPivot

SignalRec(sym, st, pt, minute, price, conf, reason, fc, pc, cs, vc) ==
    [symbol |-> sym, signal_type |-> st, point_type |-> pt,
     minute |-> minute, price |-> price, confidence |-> conf,
     reason |-> reason, fractal_count |-> fc, pivot_count |-> pc,
     cycles_sync |-> cs, volume_confirm |-> vc]

\* first index of the downward scan: range(len(fractals) - 2, 0, -1)
first_buy_scan_start_Short(n) == n - 3

first_buy_scan_start(n) == n - 2

\* The branch taken for the triplet around fractal i: "confirmed" (0.75),
\* "pending" (0.6) or "" (no signal).
first_buy_branch(fs, i) ==
    LET type1 == At(fs, i - 1).type
        type2 == At(fs, i).type
        has3 == i + 1 < Len(fs)
        idx3 == IF has3 THEN At(fs, i + 1).idx ELSE 0
        type3 == IF has3 THEN At(fs, i + 1).type ELSE ""
    IN  IF type1 = "top" /\ type2 = "bottom"
        THEN IF idx3 # 0 /\ type3 = "top" THEN "confirmed"
             ELSE IF i = Len(fs) - 1 THEN "pending" ELSE ""
        ELSE ""

\* confidences are kept in percent
RECURSIVE first_buy_loop(_, _, _)
first_buy_loop(fs, i, acc) ==
    IF i <= 0 THEN acc
    ELSE LET bar2 == At(fs, i).bar
             branch == first_buy_branch(fs, i)
         IN  IF branch = "confirmed"
             THEN first_buy_loop(fs, i - 1, Append(acc,
                      SignalRec(bar2.symbol, "buy", "1st", bar2.minute,
                                bar2.low, 75, <<"bottom_up", i>>,
                                Len(fs), 0, 1, FALSE)))
             ELSE IF branch = "pending"
                  THEN first_buy_loop(fs, i - 1, Append(acc,
                           SignalRec(bar2.symbol, "buy", "1st", bar2.minute,
                                     bar2.low, 60, <<"bottom_pending", i>>,
                                     Len(fs), 0, 1, FALSE)))
                  ELSE first_buy_loop(fs, i - 1, acc)

\* _identify_first_buy_point(bars, fractals)
identify_first_buy_point(bs, fs) ==
    IF Len(fs) < 2 THEN <<>>
    ELSE first_buy_loop(fs, first_buy_scan_start(Len(fs)), <<>>)

\* the end index handed to _find_pivot: len(bars) - 1
pivot_window_end_BeforeLast(bs) == Len(bs) - 2

pivot_window_end(bs) == Len(bs) - 1

\* for i in range(len(bars) - pivot_min_bars, max(0, len(bars) - 50), -1):
\* the first window [i, len - 1] that _find_pivot accepts.
RECURSIVE latest_pivot_loop(_, _, _)
latest_pivot_loop(bs, i, stop) ==
    IF i <= stop THEN NoPivot
    ELSE LET pivot == find_pivot(bs, i, pivot_window_end(bs))
         IN  IF pivot.found THEN pivot ELSE latest_pivot_loop(bs, i - 1, stop)

latest_pivot(bs) ==
    latest_pivot_loop(bs, Len(bs) - pivot_min_bars,
                      Max2(0, Len(bs) - pivot_lookback))

\* _identify_second_buy_point(bars, fractals)
identify_second_buy_point(bs, fs) ==
    IF Len(bs) < second_buy_min_bars THEN <<>>
    ELSE LET pivot == latest_pivot(bs)
             current == At(bs, Len(bs) - 1)
             curr_low == safe_low(current)
             curr_close == safe_close(current)
             curr_high == safe_high(current)
         IN  IF ~pivot.found THEN <<>>
             ELSE IF /\ 100 * curr_low <= (100 + pivot_threshold_pct) * pivot.low
                     /\ 100 * curr_close > (100 + pivot_threshold_pct) * pivot.low
                     /\ curr_high > pivot.high
                  THEN <<SignalRec(current.symbol, "buy", "2nd", current.minute,
                                   pivot.high, 70, <<"pivot_breakout", pivot.range>>,
                                   0, 1, 1, current.volume > 0)>>
                  ELSE <<>>

\* The branch of the sell scan for the triplet around fractal i.
first_sell_branch_NoThird(fs, i) ==
    At(fs, i - 1).type = "bottom" /\ At(fs, i).type = "top"

first_sell_branch(fs, i) ==
    LET type1 == At(fs, i - 1).type
        type2 == At(fs, i).type
        has3 == i + 1 < Len(fs)
        idx3 == IF has3 THEN At(fs, i + 1).idx ELSE 0
        type3 == IF has3 THEN At(fs, i + 1).type ELSE ""
    IN  type1 = "bottom" /\ type2 = "top" /\ idx3 # 0 /\ type3 = "bottom"

\* analyze_bars: for i in range(1, len(fractals) - 1)
RECURSIVE first_sell_loop(_, _, _, _)
first_sell_loop(fs, symbol, i, acc) ==
    IF i >= Len(fs) - 1 THEN acc
    ELSE LET bar2 == At(fs, i).bar
         IN  IF first_sell_branch(fs, i)
             THEN first_sell_loop(fs, symbol, i + 1, Append(acc,
                      SignalRec(symbol, "sell", "1st", bar2.minute, bar2.high,
                                75, <<"top_down", i>>, Len(fs), 0, 1, FALSE)))
             ELSE first_sell_loop(fs, symbol, i + 1, acc)

\* for bar in bars: bar['symbol'] = symbol
with_symbol(bs, symbol) ==
    [k \in 1..Len(bs) |-> [bs[k] EXCEPT !.symbol = symbol]]

\* the signals analyze_bars collects from the (already tagged) bars
collect_signals(bs, symbol) ==
    LET fs == find_fractals(bs)
    IN  identify_first_buy_point(bs, fs)
        \o identify_second_buy_point(bs, fs)
        \o first_sell_loop(fs, symbol, 1, <<>>)

\* sync_count = sum([len(first_buys_1m) > 0, len(first_buys_5m) > 0, ...])
sync_count_of(lists) ==
    Cardinality({k \in 1..Len(lists) : Len(lists[k]) > 0})

\* if sync_count >= 2: the number of series that must agree
resonance_min_sync == 2

\* confidence = min(0.95, 0.7 + sync_count * 0.1), in percent (the code adds
\* floats: for sync_count = 2 its sum is one ulp below 0.9)
resonance_confidence(sync_count) == Min2(95, 70 + sync_count * 10)

\* avg_price = (c1 + c2 + c3) / 3: the quotient is kept as a fraction
avg_price(b1, b5, b60) ==
    [num |-> At(b1, Len(b1) - 1).close + At(b5, Len(b5) - 1).close
               + At(b60, Len(b60) - 1).close,
     den |-> 3]

\* _identify_third_buy_point(bars_1m, bars_5m, bars_60m)
identify_third_buy_point(b1, b5, b60) ==
    IF b1 = <<>> \/ b5 = <<>> \/ b60 = <<>> THEN <<>>
    ELSE LET first_buys_1m == identify_first_buy_point(b1, find_fractals(b1))
             first_buys_5m == identify_first_buy_point(b5, find_fractals(b5))
             first_buys_60m == identify_first_buy_point(b60, find_fractals(b60))
             sync_count == sync_count_of(<<first_buys_1m, first_buys_5m,
                                           first_buys_60m>>)
             last == At(b1, Len(b1) - 1)
         IN  IF sync_count >= resonance_min_sync
             THEN <<SignalRec(last.symbol, "buy", "3rd", last.minute,
                              avg_price(b1, b5, b60),
                              resonance_confidence(sync_count),
                              <<"resonance", sync_count>>, 0, 0, sync_count,
                              FALSE)>>
             ELSE <<>>

-----------------------------------------------------------------------------
(* IntervalAnalyzer  (interval_analysis.py) *)

\* analyze_multilevel: return None
None == [symbol |-> "None"]

\* analyze_multilevel: the 30 of "if len(bars) < 30"
multilevel_min_bars == 30

\* bars[-15:], aggregate_bars(bars[-60:], 5)[-12:], aggregate_bars(bars[-240:], 60)[-4:]
fast_window == 15
mid_span == 60
mid_timeframe == 5
mid_window == 12
slow_span == 240
slow_timeframe == 60
slow_window == 4

\* detect_breakout thresholds 0.01, 0.005, 0.002, in thousandths
fast_threshold == 10
mid_threshold == 5
slow_threshold == 2

\* analyze_multilevel: if len(bars) < 30
too_few_bars_FastWindow(bs) == Len(bs) < fast_window

too_few_bars(bs) == Len(bs) < multilevel_min_bars

\* bars[-n:]
LastN(bs, n) == IF Len(bs) <= n THEN bs ELSE SubSeq(bs, Len(bs) - n + 1, Len(bs))

\* sum(volumes)
RECURSIVE SeqSum(_)
SeqSum(s) == IF s = <<>> THEN 0 ELSE s[1] + SeqSum(Tail(s))

\* the bar aggregate_bars builds from one segment (it carries no symbol)
aggregated_bar_FirstClose(segment) ==
    [minute |-> segment[1].minute,
     open |-> segment[1].open,
     high |-> SeqMax(Highs(segment)),
     low |-> SeqMin(Lows(segment)),
     close |-> segment[1].close,
     volume |-> SeqSum([k \in 1..Len(segment) |-> segment[k].volume])]

aggregated_bar(segment) ==
    [minute |-> segment[1].minute,
     open |-> segment[1].open,
     high |-> SeqMax(Highs(segment)),
     low |-> SeqMin(Lows(segment)),
     close |-> segment[Len(segment)].close,
     volume |-> SeqSum([k \in 1..Len(segment) |-> segment[k].volume])]

\* while i < len(bars): segment = bars[i : min(len(bars), i + timeframe)]
RECURSIVE aggregate_loop(_, _, _, _)
aggregate_loop(bs, timeframe_minutes, i, acc) ==
    IF i >= Len(bs) THEN acc
    ELSE LET j == Min2(Len(bs), i + timeframe_minutes)
         IN  aggregate_loop(bs, timeframe_minutes, j,
                 Append(acc, aggregated_bar(Slice(bs, i, j))))

\* aggregate_bars(bars, timeframe_minutes)
aggregate_bars(bs, timeframe_minutes) ==
    IF bs = <<>> \/ timeframe_minutes <= 1 THEN bs
    ELSE aggregate_loop(bs, timeframe_minutes, 0, <<>>)

\* get_pivot_bounds(bars): (max(highs), min(lows)), or (None, None)
get_pivot_bounds_BeforeLast(bs) ==
    IF Len(bs) < 2 THEN [high |-> SeqMax(Highs(bs)), low |-> SeqMin(Lows(bs))]
    ELSE [high |-> SeqMax(Highs(SubSeq(bs, 1, Len(bs) - 1))),
          low |-> SeqMin(Lows(SubSeq(bs, 1, Len(bs) - 1)))]

get_pivot_bounds(bs) ==
    IF bs = <<>> THEN None
    ELSE [high |-> SeqMax(Highs(bs)), low |-> SeqMin(Lows(bs))]

\* detect_breakout(bars, pivot_high, pivot_low, threshold): (signal, price);
\* price is <<p>> or <<>> (None).  threshold is in thousandths, so
\* current_price > pivot_high + pivot_height * threshold is compared after
\* multiplying both sides by 1000.
detect_breakout(bs, pivot_high, pivot_low, threshold) ==
    IF bs = <<>> THEN [signal |-> "none", price |-> <<>>]
    ELSE LET current_price == bs[Len(bs)].close
             pivot_height == pivot_high - pivot_low
         IN  IF 1000 * current_price > 1000 * pivot_high + pivot_height * threshold
             THEN [signal |-> "buy", price |-> <<current_price>>]
             ELSE IF 1000 * current_price
                        < 1000 * pivot_low - pivot_height * threshold
                  THEN [signal |-> "sell", price |-> <<current_price>>]
                  ELSE [signal |-> "none", price |-> <<>>]

\* fast_price or bars[-1]['close']: None and 0 are both falsy
price_or(price, default) ==
    IF price = <<>> THEN default
    ELSE IF price[1] = 0 THEN default ELSE price[1]

\* strength = min(1.0, strength + 0.2), in percent
sync_bonus_Uncapped(strength) == strength + 20

sync_bonus(strength) == Min2(100, strength + 20)

\* the strength score, in percent
signal_strength(fast_signal, mid_signal, slow_signal) ==
    LET base == 30 + (IF fast_signal # "none" THEN 20 ELSE 0)
                   + (IF mid_signal # "none" THEN 25 ELSE 0)
                   + (IF slow_signal # "none" THEN 25 ELSE 0)
    IN  IF fast_signal = mid_signal /\ mid_signal = slow_signal
           /\ fast_signal # "none"
        THEN sync_bonus(base)
        ELSE base

Count(s, x) == Cardinality({k \in 1..Len(s) : s[k] = x})

\* _generate_analysis_text: the wording is reduced to the case it names
generate_analysis_text(fast_sig, mid_sig, slow_sig) ==
    IF fast_sig = mid_sig /\ mid_sig = slow_sig /\ slow_sig = "buy"
    THEN "sync_buy"
    ELSE IF fast_sig = mid_sig /\ mid_sig = slow_sig /\ slow_sig = "sell"
    THEN "sync_sell"
    ELSE IF fast_sig = mid_sig /\ mid_sig = slow_sig THEN "sync_neutral"
    ELSE LET sigs == <<fast_sig, mid_sig, slow_sig>>
             buy_count == Count(sigs, "buy")
             sell_count == Count(sigs, "sell")
         IN  IF buy_count > sell_count THEN "bullish"
             ELSE IF sell_count > buy_count THEN "bearish" ELSE "mixed"

\* the three windows analyze_multilevel prepares
multilevel_windows(bs) ==
    [fast |-> LastN(bs, fast_window),
     mid |-> LastN(aggregate_bars(LastN(bs, mid_span), mid_timeframe),
                   mid_window),
     slow |-> LastN(aggregate_bars(LastN(bs, slow_span), slow_timeframe),
                    slow_window)]

\* analyze_multilevel(bars, symbol): an IntervalAnalysis, or None
analyze_multilevel(bs, symbol) ==
    IF too_few_bars(bs) THEN None
    ELSE LET w == multilevel_windows(bs)
         IN  IF w.fast = <<>> \/ w.mid = <<>> \/ w.slow = <<>> THEN None
             ELSE LET fb == get_pivot_bounds(w.fast)
                      mb == get_pivot_bounds(w.mid)
                      sb == get_pivot_bounds(w.slow)
                      f == detect_breakout(w.fast, fb.high, fb.low,
                                           fast_threshold)
                      m == detect_breakout(w.mid, mb.high, mb.low,
                                           mid_threshold)
                      sl == detect_breakout(w.slow, sb.high, sb.low,
                                            slow_threshold)
                  IN  [symbol |-> symbol,
                       minute |-> bs[Len(bs)].minute,
                       fastcycle_signal |-> f.signal,
                       midcycle_signal |-> m.signal,
                       slowcycle_signal |-> sl.signal,
                       fast_price |-> price_or(f.price, bs[Len(bs)].close),
                       mid_price |-> price_or(m.price,
                                              w.mid[Len(w.mid)].close),
                       slow_price |-> price_or(sl.price,
                                               w.slow[Len(w.slow)].close),
                       pivot_high |-> [num |-> fb.high + mb.high + sb.high,
                                       den |-> 3],
                       pivot_low |-> [num |-> fb.low + mb.low + sb.low,
                                      den |-> 3],
                       strength |-> signal_strength(f.signal, m.signal,
                                                    sl.signal),
                       analysis |-> generate_analysis_text(f.signal, m.signal,
                                                           sl.signal)]

\* IntervalAnalysis.is_synchronized()
is_synchronized(a) ==
    LET all_signals == <<a.fastcycle_signal, a.midcycle_signal,
                         a.slowcycle_signal>>
        sigs == SelectSeq(all_signals, LAMBDA x : x # "none")
    IN  IF sigs = <<>> THEN FALSE
        ELSE \A k \in 1..Len(sigs) : sigs[k] = sigs[1]

-----------------------------------------------------------------------------
(* FractalMonitor  (fractal_monitor.py) *)

\* dict.get(key, default)
dict_get(d, key, default) == IF key \in DOMAIN d THEN d[key] ELSE default

\* d[key] = value
dict_set(d, key, value) ==
    [k \in DOMAIN d \cup {key} |-> IF k = key THEN value ELSE d[k]]

\* [f for f in fractals if f.idx > last_idx]
fractals_after(fs, last_idx) == SelectSeq(fs, LAMBDA f : f.idx > last_idx)

-----------------------------------------------------------------------------
(* APIPool and APIRetryStrategy  (api_pool_manager.py) *)

\* APIRetryStrategy.__init__: self.max_retries = 3
max_retries == 3

\* mark_api_failed: if error_count >= 3
cooldown_error_count == 3

\* self.stats = defaultdict(lambda: {...}): the entry of an api never seen
fresh_stats == [error_count |-> 0, cooling |-> FALSE]

\* get_current_api, the loop under the lock: the first api from
\* current_index on that is enabled and not cooling down, and the index the
\* scan leaves in current_index; found is FALSE when it returns None.
RECURSIVE scan_apis(_, _, _, _)
scan_apis(pool, st, index, attempts) ==
    IF attempts >= Len(pool) THEN [found |-> FALSE, index |-> index]
    ELSE LET api == At(pool, index)
         IN  IF ~api.enabled \/ dict_get(st, api.id, fresh_stats).cooling
             THEN scan_apis(pool, st, (index + 1) % Len(pool), attempts + 1)
             ELSE [found |-> TRUE, index |-> index, id |-> api.id]

get_current_api(pool, st, index) ==
    IF pool = <<>> THEN [found |-> FALSE, index |-> index]
    ELSE scan_apis(pool, st, index, 0)

\* the api_id mark_api_success / mark_api_failed work on when called without
\* one: the current api's id, or None (0) when there is none
marked_id(current) == IF current.found THEN current.id ELSE 0

\* mark_api_success: error_count = 0, disabled_until = None
stats_after_success(st, api_id) == dict_set(st, api_id, fresh_stats)

\* mark_api_failed: error_count += 1, cooldown from the third error on
stats_after_failure(st, api_id) ==
    LET error_count == dict_get(st, api_id, fresh_stats).error_count + 1
    IN  dict_set(st, api_id,
                 [error_count |-> error_count,
                  cooling |-> \/ dict_get(st, api_id, fresh_stats).cooling
                              \/ error_count >= cooldown_error_count])

-----------------------------------------------------------------------------
(* TradingSignalGenerator.analyze_bars  (trading_signals.py) *)

trading_min_bars == 5

TradingSignal(symbol, signal_type, fractal, price) ==
    [symbol |-> symbol, signal_type |-> signal_type, minute |-> fractal.minute,
     price |-> price, confidence |-> 80,
     reason |-> [fractal_type |-> fractal.fractal_type, idx |-> fractal.idx]]

\* [f for f in fractals[:-1] if f.fractal_type == type]
prev_of_type(fs, type) ==
    SelectSeq(SubSeq(fs, 1, Len(fs) - 1), LAMBDA f : f.fractal_type = type)

\* The loop over enumerate(fractals): only the latest fractal (i == len - 1,
\* i > 0) can give a signal, compared with the previous fractal of its type
\* and with the close of the latest bar.
latest_fractal_signals(fs, bs, symbol) ==
    LET fractal == fs[Len(fs)]
        current_bar == bs[Len(bs)]
        prev == prev_of_type(fs, fractal.fractal_type)
    IN  IF prev = <<>> THEN <<>>
        ELSE IF /\ fractal.fractal_type = "bottom"
                /\ fractal.low < prev[Len(prev)].low
                /\ current_bar.close > fractal.close
             THEN <<TradingSignal(symbol, "buy", fractal, fractal.low)>>
             ELSE IF /\ fractal.fractal_type = "top"
                     /\ fractal.high > prev[Len(prev)].high
                     /\ current_bar.close < fractal.close
                  THEN <<TradingSignal(symbol, "sell", fractal, fractal.high)>>
                  ELSE <<>>

\* Whether analyze_bars reaches its last statement self.signals.extend(signals)
trading_reaches_extend(bs) ==
    Len(bs) >= trading_min_bars /\ Len(recognize_from_bars(bs)) >= 2

trading_analyze_bars(bs, symbol) ==
    IF trading_reaches_extend(bs)
    THEN latest_fractal_signals(recognize_from_bars(bs), bs, symbol)
    ELSE <<>>

-----------------------------------------------------------------------------
(* ChanTradingSystemIntegrated and ParallelChanAnalyzer: batch analysis *)

batch_min_bars == 5

\* type(x).__name__ of what analyze_multilevel returned: None or an instance
\* of the dataclass IntervalAnalysis.
type_name(a) == IF a = None THEN "NoneType" ELSE "IntervalAnalysis"

\* Only a dict has the method get.
has_get(a) == type_name(a) = "dict"

\* bool(x): None is falsy, a dataclass instance is truthy.
truthy(a) == a # None

\* str(e) of the AttributeError raised by interval_analysis.get
NoGetError(a) == <<type_name(a), "object has no attribute 'get'">>
\* str(e) of the TypeError raised by signal_count > 0 in
\* analyze_multiple_symbols: for a series of fewer than 5 bars analyze_symbol
\* returns a dict whose entry 'signals' is a list.
ListIntError == <<"'>' not supported between instances of", "list", "int">>

\* analyze_symbol: the dict built for a series of at least 5 bars; the
\* evaluation of interval_analysis.get raises when there is no such method.
signal_details(found) ==
    [k \in 1..Len(found) |->
        [type |-> found[k].signal_type, point |-> found[k].point_type,
         minute |-> found[k].minute, price |-> found[k].price,
         confidence |-> found[k].confidence, reason |-> found[k].reason]]

integrated_result(bs, symbol, found, interval_analysis) ==
    IF has_get(interval_analysis)
    THEN [raised |-> FALSE,
          value |-> [symbol |-> symbol, bars |-> Len(bs),
                     latest_price |-> bs[Len(bs)].close,
                     signals |-> Len(found),
                     signal_details |-> signal_details(found),
                     interval_strength |->
                         dict_get(interval_analysis, "strength", 0)]]
    ELSE [raised |-> TRUE, error |-> NoGetError(interval_analysis)]

error_record(symbol, e) == [symbol |-> symbol, error |-> e]

\* _analyze_symbol_sync: the dict it builds, or None where the evaluation of
\* interval_analysis.get raised inside its try block.
count_type(fs, type) ==
    Cardinality({k \in 1..Len(fs) : fs[k].fractal_type = type})

parallel_result(bs, symbol, fs, ss, ps, found, interval_analysis) ==
    IF truthy(interval_analysis) /\ ~has_get(interval_analysis) THEN None
    ELSE [symbol |-> symbol, bar_count |-> Len(bs),
          latest_price |-> bs[Len(bs)].close,
          fractals |-> [total |-> Len(fs), tops |-> count_type(fs, "top"),
                        bottoms |-> count_type(fs, "bottom")],
          strokes |-> Len(ss), pivots |-> Len(ps), signals |-> Len(found),
          interval_strength |->
              IF truthy(interval_analysis)
              THEN dict_get(interval_analysis, "strength", 0) ELSE 0]

-----------------------------------------------------------------------------
(* Fixtures of test_chan_3point.py *)

\* generate_sample_bars (test_chan_3point.py): rows of (open, high, low, close);
\* bar i carries volume 1000 + i * 100 and the symbol TEST001.
FixtureBars(prices) ==
    [k \in 1..Len(prices) |->
        [minute |-> k - 1, symbol |-> FixtureSymbol,
         open |-> prices[k][1], high |-> prices[k][2], low |-> prices[k][3],
         close |-> prices[k][4], volume |-> 1000 + (k - 1) * 100]]

UptrendFixture ==
    FixtureBars(<< <<100, 102, 99, 101>>, <<101, 103, 100, 100>>,
                   <<100, 101, 98, 99>>, <<99, 102, 99, 101>>,
                   <<101, 105, 100, 104>>, <<104, 106, 103, 105>>,
                   <<105, 107, 104, 106>>, <<106, 108, 105, 107>>,
                   <<107, 108, 102, 103>>, <<103, 104, 100, 101>>,
                   <<101, 106, 100, 105>>, <<105, 109, 104, 108>> >>)

DowntrendFixture ==
    FixtureBars(<< <<100, 102, 99, 101>>, <<101, 103, 100, 102>>,
                   <<102, 104, 101, 103>>, <<103, 104, 98, 99>>,
                   <<99, 100, 96, 97>>, <<97, 98, 93, 94>> >>)

ConsolidationFixture ==
    FixtureBars(<< <<100, 102, 99, 101>>, <<101, 103, 100, 102>>,
                   <<102, 103, 101, 102>>, <<102, 103, 100, 101>>,
                   <<101, 102, 100, 101>>, <<101, 103, 101, 102>>,
                   <<102, 105, 101, 104>> >>)

-----------------------------------------------------------------------------
(* Fractal / stroke specification *)

\* No fractal, stroke, pivot or signal component has run.
PipelineIdle ==
    /\ fractals = <<>>
    /\ strokes = <<>>
    /\ rec_fractals = <<>>
    /\ self_fractals = <<>>
    /\ rec_strokes = <<>>
    /\ self_strokes = <<>>
    /\ min_bars = DefaultMinBars
    /\ pivots = <<>>
    /\ self_pivots = <<>>
    /\ pivot_filter = "any"
    /\ sig_fractals = <<>>
    /\ signals = <<>>
    /\ self_signals = <<>>

\* No 3rd-type detection has run.
ThirdIdle ==
    /\ bars_1m = <<>>
    /\ bars_5m = <<>>
    /\ bars_60m = <<>>
    /\ third_signals = <<>>

\* IntervalAnalyzer.__init__: nothing analysed yet.
IntervalIdle ==
    /\ timeframe = 0
    /\ aggregated = <<>>
    /\ fast_bars = <<>>
    /\ mid_bars = <<>>
    /\ slow_bars = <<>>
    /\ analysis = None
    /\ analysis_results = <<>>

\* No center detection, monitor, API call or batch analysis has run.
\* FractalMonitor.__init__
MonitorIdle ==
    /\ last_checked = <<>>
    /\ recent_fractals = <<>>
    /\ new_fractals = <<>>
    /\ alerts = <<>>

\* RealtimeMonitor.__init__, no thread started
RealtimeIdle ==
    /\ watchlist_5f = {}
    /\ watchlist_1f = {}
    /\ sent_signals = {}
    /\ email_notifier = FALSE
    /\ thread_pc = <<>>
    /\ thread_sig = <<>>
    /\ handled = <<>>
    /\ emails = <<>>

\* APIPool.__init__ on an empty configuration, no call made
PoolIdle ==
    /\ apis = <<>>
    /\ current_index = 0
    /\ api_lock = "free"
    /\ stats = <<>>
    /\ retry_pc = "idle"
    /\ attempt = 0
    /\ func_calls = 0
    /\ retry_result = None

\* No batch analysis was started.
BatchIdle ==
    /\ batch_system = "none"
    /\ batch_index = 0
    /\ batch_results = <<>>
    /\ self_all_signals = <<>>
    /\ worker_pc = <<>>
    /\ worker_result = <<>>
    /\ trade_signals = <<>>

SystemIdle ==
    /\ centers = <<>>
    /\ minute_bars = <<>>
    /\ MonitorIdle
    /\ RealtimeIdle
    /\ PoolIdle
    /\ BatchIdle

\* bars is a list of up to n bars whose shapes are drawn from S.
BarsFrom(S, n) == \E k \in 0..n : \E s \in [1..k -> S] : bars = MkBars(s)

\* Bar lists of up to MaxLen bars over the three price levels 1..3, and the
\* lists of up to ShortLen bars over the prices 1..MaxPrice.
Init ==
    /\ \/ BarsFrom(HLShapes(3), MaxLen)
       \/ BarsFrom(HLShapes(MaxPrice), ShortLen)
    /\ op = "none"
    /\ fractals = <<>>
    /\ strokes = <<>>
    /\ rec_fractals = <<>>
    /\ self_fractals = <<>>
    /\ rec_strokes = <<>>
    /\ self_strokes = <<>>
    /\ min_bars = DefaultMinBars
    /\ pivots = <<>>
    /\ self_pivots = <<>>
    /\ pivot_filter = "any"
    /\ sig_fractals = <<>>
    /\ signals = <<>>
    /\ self_signals = <<>>
    /\ ThirdIdle
    /\ IntervalIdle
    /\ SystemIdle

\* engine.detect_fractals(klines)
DetectFractals ==
    /\ op = "none"
    /\ fractals' = detect_fractals(bars)
    /\ op' = "detect_fractals"
    /\ UNCHANGED system_vars
    /\ UNCHANGED <<bars, strokes, rec_fractals, self_fractals, rec_strokes,
                   self_strokes, min_bars, pivots, self_pivots, sig_fractals,
                   signals, self_signals>>
    /\ UNCHANGED <<pivot_filter, third_vars, interval_vars>>

\* engine.detect_strokes(fractals, klines) on the fractals just detected
DetectStrokes ==
    /\ op = "detect_fractals"
    /\ strokes' = detect_strokes(fractals, bars)
    /\ op' = "detect_strokes"
    /\ UNCHANGED system_vars
    /\ UNCHANGED <<bars, fractals, rec_fractals, self_fractals, rec_strokes,
                   self_strokes, min_bars, pivots, self_pivots, sig_fractals,
                   signals, self_signals>>
    /\ UNCHANGED <<pivot_filter, third_vars, interval_vars>>

\* FractalRecognizer().recognize_from_bars(bars)
RecognizeFractals ==
    /\ op = "none"
    /\ LET fs == recognize_from_bars(bars)
       IN  /\ rec_fractals' = fs
           /\ self_fractals' = IF Len(bars) < 3 THEN self_fractals
                               ELSE self_fractals \o fs
    /\ op' = "recognize_fractals"
    /\ UNCHANGED system_vars
    /\ UNCHANGED <<bars, fractals, strokes, rec_strokes, self_strokes,
                   min_bars, pivots, self_pivots, sig_fractals, signals,
                   self_signals>>
    /\ UNCHANGED <<pivot_filter, third_vars, interval_vars>>

\* StrokeRecognizer().recognize_from_bars(bars, symbol)
RecognizeStrokes ==
    /\ op = "none"
    /\ LET fs == recognize_from_bars(bars)
           ss == stroke_recognize_from_bars(bars, FixtureSymbol)
       IN  /\ self_fractals' = IF Len(bars) < 3 THEN self_fractals
                               ELSE self_fractals \o fs
           /\ rec_strokes' = ss
           /\ self_strokes' = IF Len(fs) < 2 THEN self_strokes
                              ELSE self_strokes \o ss
    /\ op' = "recognize_strokes"
    /\ UNCHANGED system_vars
    /\ UNCHANGED <<bars, fractals, strokes, rec_fractals, min_bars, pivots,
                   self_pivots, sig_fractals, signals, self_signals>>
    /\ UNCHANGED <<pivot_filter, third_vars, interval_vars>>

Next ==
    \/ DetectFractals
    \/ DetectStrokes
    \/ RecognizeFractals
    \/ RecognizeStrokes

Spec == Init /\ [][Next]_vars

-----------------------------------------------------------------------------
(* Pivot specification: PivotDetector(min_bars).detect_from_bars *)

InitPivot ==
    /\ \/ BarsFrom(HLShapes(PivotMaxPrice), PivotMaxLen)
       \/ bars = ConsolidationFixture
    /\ op = "none"
    /\ fractals = <<>>
    /\ strokes = <<>>
    /\ rec_fractals = <<>>
    /\ self_fractals = <<>>
    /\ rec_strokes = <<>>
    /\ self_strokes = <<>>
    /\ min_bars \in MinBarsChoices
    /\ pivots = <<>>
    /\ self_pivots = <<>>
    /\ pivot_filter = "any"
    /\ sig_fractals = <<>>
    /\ signals = <<>>
    /\ self_signals = <<>>
    /\ ThirdIdle
    /\ IntervalIdle
    /\ SystemIdle

\* detector.detect_from_bars(bars, symbol, direction)
DetectPivots(direction) ==
    /\ op = "none"
    /\ LET ps == detect_from_bars(bars, FixtureSymbol, direction, min_bars)
       IN  /\ pivots' = ps
           /\ self_pivots' = self_pivots \o ps
    /\ pivot_filter' = direction
    /\ op' = "detect_pivots"
    /\ UNCHANGED system_vars
    /\ UNCHANGED <<bars, fractals, strokes, rec_fractals, self_fractals,
                   rec_strokes, self_strokes, min_bars, sig_fractals, signals,
                   self_signals>>
    /\ UNCHANGED <<third_vars, interval_vars>>

NextPivot == \E direction \in {"any", "up", "down"} : DetectPivots(direction)

SpecPivot == InitPivot /\ [][NextPivot]_vars

-----------------------------------------------------------------------------
(* Signal specification: ChanTheory3PointSignalGenerator().analyze_bars *)

\* Long lists, around the 20-bar minimum of the 2nd-type detector: a
\* consolidation alternating two narrow bars a, b near 100, then a last bar.
ConsolidationShapes ==
    {Shape(101, 100, 100, 1000), Shape(102, 100, 100, 1000),
     Shape(102, 101, 101, 1000), Shape(101, 101, 101, 1000)}

LastBarShapes ==
    {s \in [high : {101, 102, 103, 105}, low : {99, 100, 102},
            close : {99, 100, 101, 102, 103, 105}, volume : {0, 1000}] :
        s.low <= s.high /\ s.close \in {s.low, s.high}}

\* The same at prices near 10000, where a window of range below 2% can hold
\* a last bar that closes above the 2% band over the window's low.
WideShapes ==
    {Shape(10202, 10001, 10001, 1000), Shape(10201, 10000, 10000, 1000),
     Shape(10202, 10000, 10000, 1000)}

WideLastShapes ==
    {Shape(10202, 10000, 10201, 1000), Shape(10202, 10001, 10202, 1000),
     Shape(10203, 10000, 10203, 0), Shape(10200, 10000, 10000, 1000)}

LongLens == {second_buy_min_bars - 1, second_buy_min_bars,
             second_buy_min_bars + 1}

LongBars(n, a, b, last) ==
    MkBars([k \in 1..n |-> IF k = n THEN last
                           ELSE IF k % 2 = 1 THEN a ELSE b])

InitSignal ==
    /\ \/ BarsFrom(HLShapes(SigMaxPrice), SigMaxLen)
       \/ bars \in {UptrendFixture, DowntrendFixture, ConsolidationFixture}
       \/ \E n \in LongLens : \E a, b \in ConsolidationShapes :
             \E last \in LastBarShapes : bars = LongBars(n, a, b, last)
       \/ \E n \in LongLens : \E a, b \in WideShapes :
             \E last \in WideLastShapes : bars = LongBars(n, a, b, last)
    /\ op = "none"
    /\ fractals = <<>>
    /\ strokes = <<>>
    /\ rec_fractals = <<>>
    /\ self_fractals = <<>>
    /\ rec_strokes = <<>>
    /\ self_strokes = <<>>
    /\ min_bars = DefaultMinBars
    /\ pivots = <<>>
    /\ self_pivots = <<>>
    /\ pivot_filter = "any"
    /\ sig_fractals = <<>>
    /\ signals = <<>>
    /\ self_signals = <<>>
    /\ ThirdIdle
    /\ IntervalIdle
    /\ SystemIdle

\* generator.analyze_bars(bars, symbol)
AnalyzeBars(symbol) ==
    /\ op = "none"
    /\ IF Len(bars) < analyze_min_bars
       THEN /\ signals' = <<>>
            /\ UNCHANGED <<bars, sig_fractals, self_signals>>
       ELSE LET tagged == with_symbol(bars, symbol)
                found == collect_signals(tagged, symbol)
            IN  /\ bars' = tagged
                /\ sig_fractals' = find_fractals(tagged)
                /\ signals' = found
                /\ self_signals' = self_signals \o found
    /\ op' = "analyze_bars"
    /\ UNCHANGED system_vars
    /\ UNCHANGED <<fractals, strokes, rec_fractals, self_fractals,
                   rec_strokes, self_strokes, min_bars, pivots, self_pivots>>
    /\ UNCHANGED <<pivot_filter, third_vars, interval_vars>>

NextSignal == \E symbol \in {"TEST001", "TEST002"} : AnalyzeBars(symbol)

SpecSignal == InitSignal /\ [][NextSignal]_vars

-----------------------------------------------------------------------------
(* 3rd-type specification: generator._identify_third_buy_point *)

ThirdMaxLen == 5     \* longest enumerated fast series of this specification

\* A series whose fractals are top, bottom, top (bars 1, 2, 3), followed by a
\* last bar that forms no further fractal and carries the latest close.
ResonanceSeries(last) ==
    MkBars(<<Shape(1, 1, 1, 1000), Shape(2, 2, 2, 1000), Shape(1, 1, 1, 1000),
             Shape(2, 2, 2, 1000), Shape(1, 1, 1, 1000), last>>)

ResonanceLastShapes ==
    {Shape(1, 1, 1, 1000), Shape(2, 1, 2, 1000), Shape(4, 1, 3, 1000)}

\* A flat series: no strict inequality, no fractal.
FlatSeries == MkBars([k \in 1..5 |-> Shape(2, 2, 2, 1000)])

\* The mid and slow series handed to the detector.
ThirdSeries ==
    {<<>>, UptrendFixture, DowntrendFixture, FlatSeries}
        \cup {ResonanceSeries(last) : last \in ResonanceLastShapes}

InitThird ==
    /\ \/ \E k \in 0..ThirdMaxLen : \E s \in [1..k -> HLShapes(2)] :
              bars_1m = MkBars(s)
       \/ bars_1m \in ThirdSeries
    /\ bars_5m \in ThirdSeries
    /\ bars_60m \in ThirdSeries
    /\ third_signals = <<>>
    /\ bars = <<>>
    /\ op = "none"
    /\ PipelineIdle
    /\ IntervalIdle
    /\ SystemIdle

\* generator._identify_third_buy_point(bars_1m, bars_5m, bars_60m)
IdentifyThirdBuy ==
    /\ op = "none"
    /\ third_signals' = identify_third_buy_point(bars_1m, bars_5m, bars_60m)
    /\ op' = "third_buy"
    /\ UNCHANGED system_vars
    /\ UNCHANGED <<bars, pipeline_vars, bars_1m, bars_5m, bars_60m,
                   interval_vars>>

NextThird == IdentifyThirdBuy

SpecThird == InitThird /\ [][NextThird]_vars

-----------------------------------------------------------------------------
(* Interval specification: IntervalAnalyzer().aggregate_bars / analyze_multilevel *)

AggMaxLen == 3       \* longest enumerated bar list of this specification
AggMaxTf == 3        \* largest timeframe_minutes handed to aggregate_bars

\* Rows (open, high, low, close, volume) with low <= open, close <= high over
\* the prices 1..2 and two volumes.
OhlcRows ==
    {r \in [open : 1..2, high : 1..2, low : 1..2, close : 1..2,
            volume : {1000, 1100}] :
        r.low <= r.open /\ r.open <= r.high /\ r.low <= r.close
            /\ r.close <= r.high}

\* The bar list built from rows: bar k (0-based) carries the minute k.
OhlcBars(rows) ==
    [k \in 1..Len(rows) |->
        [minute |-> k - 1, symbol |-> FixtureSymbol, open |-> rows[k].open,
         high |-> rows[k].high, low |-> rows[k].low, close |-> rows[k].close,
         volume |-> rows[k].volume]]

Row(o, h, l, c, v) == [open |-> o, high |-> h, low |-> l, close |-> c, volume |-> v]

\* Long lists around the lengths at which the three windows fill up: 30 bars
\* (the minimum), 56 bars (12 five-minute bars), 181 bars (4 sixty-minute
\* bars), and the spans 60 and 240 themselves.
MultilevelLens ==
    {multilevel_min_bars - 1, multilevel_min_bars, multilevel_min_bars + 1,
     mid_timeframe * (mid_window - 1), mid_timeframe * (mid_window - 1) + 1,
     mid_span, mid_span + 1,
     slow_timeframe * (slow_window - 1), slow_timeframe * (slow_window - 1) + 1,
     slow_span, slow_span + 1}

\* The two bars a long list alternates.
BaseRows == {Row(500, 1100, 100, 600, 1000), Row(101, 102, 99, 101, 1100)}

\* A bar placed 20 bars before the end (inside the mid and slow windows,
\* outside the fast one); the first choice leaves the list as it is.
SpikeRows == {Row(0, 0, 0, 0, 0), Row(600, 2100, 100, 600, 1000),
              Row(600, 1100, 50, 600, 1000)}

\* The last bar: the analyzer does not validate bars, its close is taken from
\* quotes and may lie outside the bar's own high/low.
LastCloses == {80, 90, 92, 95, 96, 98, 99, 100, 600, 1100, 1102, 1103, 1105,
               1106, 1110, 1111, 2200}

MultilevelBars(n, a, b, spike, last_close) ==
    OhlcBars([k \in 1..n |->
        IF k = n THEN Row(600, 1100, 100, last_close, 1000)
        ELSE IF k = n - 20 /\ spike.volume # 0 THEN spike
        ELSE IF k % 2 = 1 THEN a ELSE b])

InitInterval ==
    /\ \/ \E k \in 0..AggMaxLen : \E rows \in [1..k -> OhlcRows] :
              bars = OhlcBars(rows)
       \/ \E n \in MultilevelLens : \E a, b \in BaseRows :
              \E spike \in SpikeRows : \E c \in LastCloses :
                  bars = MultilevelBars(n, a, b, spike, c)
    /\ op = "none"
    /\ PipelineIdle
    /\ ThirdIdle
    /\ IntervalIdle
    /\ SystemIdle

\* analyzer.aggregate_bars(bars, timeframe_minutes)
AggregateBars(tf) ==
    /\ op = "none"
    /\ timeframe' = tf
    /\ aggregated' = aggregate_bars(bars, tf)
    /\ op' = "aggregate_bars"
    /\ UNCHANGED system_vars
    /\ UNCHANGED <<bars, pipeline_vars, third_vars, fast_bars, mid_bars,
                   slow_bars, analysis, analysis_results>>

\* analyzer.analyze_multilevel(bars, symbol)
AnalyzeMultilevel(symbol) ==
    /\ op = "none"
    /\ LET result == analyze_multilevel(bars, symbol)
           w == multilevel_windows(bars)
       IN  /\ analysis' = result
           /\ IF too_few_bars(bars)
              THEN UNCHANGED <<fast_bars, mid_bars, slow_bars>>
              ELSE /\ fast_bars' = w.fast
                   /\ mid_bars' = w.mid
                   /\ slow_bars' = w.slow
           /\ analysis_results' = IF result = None THEN analysis_results
                                  ELSE Append(analysis_results, result)
    /\ op' = "analyze_multilevel"
    /\ UNCHANGED system_vars
    /\ UNCHANGED <<bars, pipeline_vars, third_vars, timeframe, aggregated>>

NextInterval ==
    \/ \E tf \in 1..AggMaxTf : AggregateBars(tf)
    \/ AnalyzeMultilevel(FixtureSymbol)

SpecInterval == InitInterval /\ [][NextInterval]_vars

-----------------------------------------------------------------------------
(* Short-input specification: every component on lists below its minimum *)

ShortInputMaxLen == 4   \* longest enumerated bar list of this specification

\* Lists of 5 to 29 bars alternating two shapes: long enough for some
\* components and still too short for the interval analyzer.
AlternatingLens == 5..29

AlternatingBars(n, a, b) ==
    MkBars([k \in 1..n |-> IF k % 2 = 1 THEN a ELSE b])

InitShortInput ==
    /\ \/ BarsFrom(HLShapes(2), ShortInputMaxLen)
       \/ \E n \in AlternatingLens :
              \E a, b \in HLShapes(2) : bars = AlternatingBars(n, a, b)
    /\ op = "none"
    /\ fractals = <<>>
    /\ strokes = <<>>
    /\ rec_fractals = <<>>
    /\ self_fractals = <<>>
    /\ rec_strokes = <<>>
    /\ self_strokes = <<>>
    /\ min_bars \in MinBarsChoices
    /\ pivots = <<>>
    /\ self_pivots = <<>>
    /\ pivot_filter = "any"
    /\ sig_fractals = <<>>
    /\ signals = <<>>
    /\ self_signals = <<>>
    /\ ThirdIdle
    /\ IntervalIdle
    /\ SystemIdle

NextShortInput ==
    \/ DetectFractals
    \/ RecognizeFractals
    \/ \E direction \in {"any", "up", "down"} : DetectPivots(direction)
    \/ \E symbol \in {"TEST001", "TEST002"} : AnalyzeBars(symbol)
    \/ AnalyzeMultilevel(FixtureSymbol)

SpecShortInput == InitShortInput /\ [][NextShortInput]_vars

-----------------------------------------------------------------------------
(* Center specification: ChanTheoryEngine.detect_centers on a stroke list *)

CenterMaxLen == 4     \* longest stroke list of this specification
CenterMaxPrice == 3   \* stroke highs and lows are 1..CenterMaxPrice

StrokeShapes ==
    {s \in [high : 1..CenterMaxPrice, low : 1..CenterMaxPrice] :
        s.low <= s.high}

\* Stroke k of the list joins fractal k to fractal k + 1 (times and indices
\* are the fractal numbers); directions alternate, starting upward.
MkStrokes(shapes) ==
    [k \in 1..Len(shapes) |->
        LET up == k % 2 = 1
            lo == shapes[k].low
            hi == shapes[k].high
        IN  [start_fractal |-> [time |-> k, index |-> k,
                                price |-> IF up THEN lo ELSE hi,
                                fractal_type |-> IF up THEN "bottom" ELSE "top"],
             end_fractal |-> [time |-> k + 1, index |-> k + 1,
                              price |-> IF up THEN hi ELSE lo,
                              fractal_type |-> IF up THEN "top" ELSE "bottom"],
             direction |-> IF up THEN "up" ELSE "down",
             high |-> hi, low |-> lo]]

InitCenter ==
    /\ bars = <<>>
    /\ op = "none"
    /\ fractals = <<>>
    /\ \E k \in 0..CenterMaxLen : \E shapes \in [1..k -> StrokeShapes] :
           strokes = MkStrokes(shapes)
    /\ rec_fractals = <<>>
    /\ self_fractals = <<>>
    /\ rec_strokes = <<>>
    /\ self_strokes = <<>>
    /\ min_bars = DefaultMinBars
    /\ pivots = <<>>
    /\ self_pivots = <<>>
    /\ pivot_filter = "any"
    /\ sig_fractals = <<>>
    /\ signals = <<>>
    /\ self_signals = <<>>
    /\ ThirdIdle
    /\ IntervalIdle
    /\ centers = <<>>
    /\ minute_bars = <<>>
    /\ MonitorIdle
    /\ RealtimeIdle
    /\ PoolIdle
    /\ BatchIdle

\* engine.detect_centers(strokes)
DetectCenters ==
    /\ op = "none"
    /\ centers' = detect_centers(strokes)
    /\ op' = "detect_centers"
    /\ UNCHANGED <<bars, pipeline_vars, third_vars, interval_vars>>
    /\ UNCHANGED <<minute_bars, monitor_vars, realtime_vars, pool_vars, batch_vars>>

NextCenter == DetectCenters

SpecCenter == InitCenter /\ [][NextCenter]_vars

-----------------------------------------------------------------------------
(* Monitor specification: FractalMonitor.check_for_new_fractals while the *)
(* collector appends bars to minute_bars *)

MonitorMaxLen == 5    \* longest stored series of this specification

MonitorSymbols == {FixtureSymbol}

InitMonitor ==
    /\ bars = <<>>
    /\ op = "none"
    /\ PipelineIdle
    /\ ThirdIdle
    /\ IntervalIdle
    /\ centers = <<>>
    /\ minute_bars = [symbol \in MonitorSymbols |-> <<>>]
    /\ MonitorIdle
    /\ RealtimeIdle
    /\ PoolIdle
    /\ BatchIdle

\* The collector inserts the row of the next minute for the symbol.
AppendBar(symbol, shape) ==
    /\ Len(minute_bars[symbol]) < MonitorMaxLen
    /\ minute_bars' = [minute_bars EXCEPT ![symbol] =
           Append(@, [minute |-> Len(@), symbol |-> symbol,
                      open |-> shape.close, high |-> shape.high,
                      low |-> shape.low, close |-> shape.close,
                      volume |-> shape.volume])]
    /\ op' = "append_bar"
    /\ UNCHANGED <<bars, pipeline_vars, third_vars, interval_vars, centers,
                   monitor_vars, realtime_vars, pool_vars, batch_vars>>

\* monitor_continuous: new_fractals = self.check_for_new_fractals(symbol),
\* then print_alert for each of them
CheckForNewFractals(symbol) ==
    /\ LET stored == minute_bars[symbol]
           found == recognize_from_bars(stored)
           last_idx == dict_get(last_checked, symbol, 0)
       IN  IF Len(stored) < 3
           THEN /\ new_fractals' = <<>>
                /\ UNCHANGED <<last_checked, recent_fractals, alerts>>
           ELSE /\ new_fractals' = fractals_after(found, last_idx)
                /\ last_checked' = dict_set(last_checked, symbol,
                                            Len(stored) - 1)
                /\ recent_fractals' = dict_set(recent_fractals, symbol, found)
                /\ alerts' = alerts \o fractals_after(found, last_idx)
    /\ op' = "check_for_new_fractals"
    /\ UNCHANGED <<bars, pipeline_vars, third_vars, interval_vars, centers,
                   minute_bars, realtime_vars, pool_vars, batch_vars>>

NextMonitor ==
    \/ \E symbol \in MonitorSymbols : \E shape \in HLShapes(2) :
           AppendBar(symbol, shape)
    \/ \E symbol \in MonitorSymbols : CheckForNewFractals(symbol)

SpecMonitor == InitMonitor /\ [][NextMonitor]_vars

-----------------------------------------------------------------------------
(* Realtime specification: RealtimeMonitor.start with its two monitor *)
(* threads monitor_5f and monitor_1f *)

MonitorThreads == {"5f", "1f"}
RealtimeSymbols == {FixtureSymbol}

\* The signals engine.analyze(symbol, timeframe) may return: 1st-type buys
\* and sells at the bar times of the tables; both tables hold bars at the
\* times 1 and 2.
EngineSignals ==
    [symbol : RealtimeSymbols, signal_type : {"buy1", "sell1"}, time : {1, 2}]

\* sig_key = f"{symbol}_{sig.signal_type.value}_{sig.time}"
sig_key_of(sig) == <<sig.symbol, sig.signal_type, sig.time>>

SignalKeys == {sig_key_of(sig) : sig \in EngineSignals}

\* 'buy' in sig.signal_type.value / 'sell' in sig.signal_type.value
is_buy(sig) == sig.signal_type \in {"buy1", "buy2", "buy3"}
is_sell(sig) == sig.signal_type \in {"sell1", "sell2", "sell3"}

\* start(): the watchlist is loaded and both threads are started.
InitRealtime ==
    /\ bars = <<>>
    /\ op = "none"
    /\ PipelineIdle
    /\ ThirdIdle
    /\ IntervalIdle
    /\ centers = <<>>
    /\ minute_bars = <<>>
    /\ MonitorIdle
    /\ watchlist_5f = RealtimeSymbols
    /\ watchlist_1f = {}
    /\ sent_signals = {}
    /\ email_notifier \in BOOLEAN
    /\ thread_pc = [t \in MonitorThreads |-> "idle"]
    /\ thread_sig = [t \in MonitorThreads |-> None]
    /\ handled = [key \in SignalKeys |-> 0]
    /\ emails = [key \in SignalKeys |-> 0]
    /\ PoolIdle
    /\ BatchIdle

RealtimeFrame ==
    UNCHANGED <<bars, pipeline_vars, third_vars, interval_vars, centers,
                minute_bars, monitor_vars, watchlist_5f, email_notifier,
                pool_vars, batch_vars>>

\* for symbol in list(self.watchlist_xf): result = self.engine.analyze(...);
\* for sig in result['signals']: the thread takes up the next signal
NextSignalOf(t, sig) ==
    /\ thread_pc[t] = "idle"
    /\ sig.symbol \in (IF t = "5f" THEN watchlist_5f ELSE watchlist_1f)
    /\ thread_sig' = [thread_sig EXCEPT ![t] = sig]
    /\ thread_pc' = [thread_pc EXCEPT ![t] = "check"]
    /\ op' = "analyze"
    /\ UNCHANGED <<watchlist_1f, sent_signals, handled, emails>>
    /\ RealtimeFrame

\* if sig_key in self.sent_signals: continue; otherwise the signal is logged
\* and the 1f watchlist is updated (5f: a buy adds the symbol, 1f: a sell
\* discards it)
CheckSent(t) ==
    /\ thread_pc[t] = "check"
    /\ LET sig == thread_sig[t]
           key == sig_key_of(sig)
       IN  IF key \in sent_signals
           THEN /\ thread_pc' = [thread_pc EXCEPT ![t] = "idle"]
                /\ UNCHANGED <<watchlist_1f, handled>>
           ELSE /\ thread_pc' = [thread_pc EXCEPT ![t] = "send"]
                /\ handled' = [handled EXCEPT ![key] = @ + 1]
                /\ watchlist_1f' =
                      IF t = "5f" /\ is_buy(sig)
                      THEN watchlist_1f \cup {sig.symbol}
                      ELSE IF t = "1f" /\ is_sell(sig)
                           THEN watchlist_1f \ {sig.symbol}
                           ELSE watchlist_1f
    /\ op' = "check_sent"
    /\ UNCHANGED <<thread_sig, sent_signals, emails>>
    /\ RealtimeFrame

\* if self.email_notifier: self.email_notifier.send_signal_email(...)
SendEmail(t) ==
    /\ thread_pc[t] = "send"
    /\ emails' = IF email_notifier
                 THEN [emails EXCEPT ![sig_key_of(thread_sig[t])] = @ + 1]
                 ELSE emails
    /\ thread_pc' = [thread_pc EXCEPT ![t] = "mark"]
    /\ op' = "send_signal_email"
    /\ UNCHANGED <<thread_sig, watchlist_1f, sent_signals, handled>>
    /\ RealtimeFrame

\* self.sent_signals.add(sig_key)
MarkSent(t) ==
    /\ thread_pc[t] = "mark"
    /\ sent_signals' = sent_signals \cup {sig_key_of(thread_sig[t])}
    /\ thread_pc' = [thread_pc EXCEPT ![t] = "idle"]
    /\ op' = "mark_sent"
    /\ UNCHANGED <<thread_sig, watchlist_1f, handled, emails>>
    /\ RealtimeFrame

NextRealtime ==
    \/ \E t \in MonitorThreads : \E sig \in EngineSignals : NextSignalOf(t, sig)
    \/ \E t \in MonitorThreads : CheckSent(t)
    \/ \E t \in MonitorThreads : SendEmail(t)
    \/ \E t \in MonitorThreads : MarkSent(t)

SpecRealtime == InitRealtime /\ [][NextRealtime]_vars

-----------------------------------------------------------------------------
(* Retry specification: APIRetryStrategy(pool).call_with_retry(func) *)

RetryMaxApis == 3     \* largest API pool of this specification

\* The pool as loaded from the configuration: api k has id k; any of them
\* may be disabled, and any may be cooling down after three errors.
PoolOf(n, enabled, cooling) ==
    /\ apis = [k \in 1..n |-> [id |-> k, enabled |-> enabled[k]]]
    /\ stats = [k \in 1..n |->
                  IF cooling[k]
                  THEN [error_count |-> cooldown_error_count, cooling |-> TRUE]
                  ELSE fresh_stats]

InitRetry ==
    /\ bars = <<>>
    /\ op = "none"
    /\ PipelineIdle
    /\ ThirdIdle
    /\ IntervalIdle
    /\ centers = <<>>
    /\ minute_bars = <<>>
    /\ MonitorIdle
    /\ RealtimeIdle
    /\ \E n \in 0..RetryMaxApis :
          /\ \E enabled, cooling \in [1..n -> BOOLEAN] :
                PoolOf(n, enabled, cooling)
          /\ current_index \in 0..Max2(0, n - 1)
    /\ api_lock = "free"
    /\ retry_pc = "idle"
    /\ attempt = 0
    /\ func_calls = 0
    /\ retry_result = None
    /\ BatchIdle

RetryFrame ==
    UNCHANGED <<bars, pipeline_vars, third_vars, interval_vars, centers,
                minute_bars, monitor_vars, realtime_vars, apis,
                batch_vars>>

\* strategy.call_with_retry(func): for attempt in range(self.max_retries)
CallWithRetry ==
    /\ retry_pc = "idle"
    /\ retry_pc' = "get_api"
    /\ attempt' = 0
    /\ op' = "call_with_retry"
    /\ UNCHANGED <<current_index, api_lock, stats, func_calls, retry_result>>
    /\ RetryFrame

\* with self.api_lock: a threading.Lock is taken only when it is free, by
\* get_current_api, by rotate_api, and by the get_current_api that rotate_api
\* calls before it leaves its own with-block
AcquireApiLock ==
    /\ retry_pc \in {"get_api", "rotate_api", "rotate_get_api"}
    /\ api_lock = "free"
    /\ api_lock' = "held"
    /\ retry_pc' = CASE retry_pc = "get_api" -> "get_api_locked"
                     [] retry_pc = "rotate_api" -> "rotate_api_locked"
                     [] retry_pc = "rotate_get_api" -> "rotate_get_api_locked"
    /\ op' = "acquire_api_lock"
    /\ UNCHANGED <<current_index, stats, attempt, func_calls, retry_result>>
    /\ RetryFrame

\* get_current_api under the lock, the lock's release, and the return to the
\* caller: call_with_retry goes on to func, or returns None without an api;
\* after rotate_api it backs off and starts the next attempt, or returns
\* None when the attempts are used up
GetCurrentApi ==
    /\ retry_pc \in {"get_api_locked", "rotate_get_api_locked"}
    /\ LET current == get_current_api(apis, stats, current_index)
       IN  /\ current_index' = current.index
           /\ api_lock' = "free"
           /\ IF retry_pc = "get_api_locked"
              THEN /\ retry_pc' = IF current.found THEN "call" ELSE "returned"
                   /\ UNCHANGED <<attempt, retry_result>>
              ELSE IF attempt + 1 < max_retries
                   THEN /\ retry_pc' = "get_api"
                        /\ attempt' = attempt + 1
                        /\ UNCHANGED retry_result
                   ELSE /\ retry_pc' = "returned"
                        /\ UNCHANGED <<attempt, retry_result>>
    /\ op' = "get_current_api"
    /\ UNCHANGED <<stats, func_calls>>
    /\ RetryFrame

\* result = func(*args, **kwargs): it returns, then mark_api_success and
\* return result; or it raises, then mark_api_failed.  Both mark_ methods
\* call get_current_api and then take the lock, which is free here.
CallFunc(raises) ==
    /\ retry_pc = "call"
    /\ api_lock = "free"
    /\ LET current == get_current_api(apis, stats, current_index)
       IN  /\ current_index' = current.index
           /\ stats' = IF raises
                       THEN stats_after_failure(stats, marked_id(current))
                       ELSE stats_after_success(stats, marked_id(current))
    /\ func_calls' = func_calls + 1
    /\ retry_result' = IF raises THEN retry_result ELSE [symbol |-> "result"]
    /\ retry_pc' = IF raises THEN "rotate_api" ELSE "returned"
    /\ op' = "func"
    /\ UNCHANGED <<api_lock, attempt>>
    /\ RetryFrame

\* rotate_api under its lock: current_index moves on, then it calls
\* self.get_current_api() with the lock still held
RotateApi ==
    /\ retry_pc = "rotate_api_locked"
    /\ current_index' = (current_index + 1) % Len(apis)
    /\ retry_pc' = "rotate_get_api"
    /\ op' = "rotate_api"
    /\ UNCHANGED <<api_lock, stats, attempt, func_calls, retry_result>>
    /\ RetryFrame

NextRetry ==
    \/ CallWithRetry
    \/ AcquireApiLock
    \/ GetCurrentApi
    \/ \E raises \in BOOLEAN : CallFunc(raises)
    \/ RotateApi

SpecRetry == InitRetry /\ [][NextRetry]_vars

\* The thread running call_with_retry keeps running while it can take a step.
SpecRetryFair == SpecRetry /\ WF_vars(NextRetry)

-----------------------------------------------------------------------------
(* Specification of the batch analysis: analyze_multiple_symbols of the
   integrated system, run by one thread, and analyze_multiple_async of the
   parallel analyzer, whose pool threads run _analyze_symbol_sync for the
   requested symbols at the same time while the event loop collects what they
   return.  Each call of a worker into an analyzer object is one step. *)

\* symbols, the argument of the batch analysis
BatchSymbols == <<"TEST001", "TEST002">>
BatchSymbolSet == {BatchSymbols[k] : k \in 1..Len(BatchSymbols)}

\* Stored series just below and at the two length thresholds of the analysis.
BatchLens == {batch_min_bars - 1, batch_min_bars, multilevel_min_bars - 1,
              multilevel_min_bars}

BatchShapes == {Shape(2, 2, 2, 1000), Shape(3, 3, 3, 1000),
                Shape(3, 1, 1, 1000)}

\* n rows alternating the shape a and the flat shape at 3, the row before the
\* last of shape c.
BatchBars(symbol, n, a, c) ==
    with_symbol(MkBars([k \in 1..n |-> IF k = n - 1 THEN c
                                       ELSE IF k % 2 = 1 THEN a
                                       ELSE Shape(3, 3, 3, 1000)]),
                symbol)

InitBatch ==
    /\ bars = <<>>
    /\ op = "none"
    /\ PipelineIdle
    /\ ThirdIdle
    /\ IntervalIdle
    /\ centers = <<>>
    /\ \E len \in [BatchSymbolSet -> BatchLens] :
          \E a, c \in BatchShapes :
              minute_bars = [symbol \in BatchSymbolSet |->
                                BatchBars(symbol, len[symbol], a, c)]
    /\ MonitorIdle
    /\ RealtimeIdle
    /\ PoolIdle
    /\ batch_system \in {"integrated", "parallel"}
    /\ batch_index = 0
    /\ batch_results = <<>>
    /\ self_all_signals = <<>>
    /\ worker_pc = IF batch_system = "parallel"
                   THEN [symbol \in BatchSymbolSet |-> "queued"] ELSE <<>>
    /\ worker_result = <<>>
    /\ trade_signals = <<>>

BatchFrame ==
    UNCHANGED <<bars, op, fractals, strokes, rec_fractals, rec_strokes,
                min_bars, pivots, pivot_filter, sig_fractals, signals,
                third_vars, timeframe, aggregated, fast_bars, mid_bars,
                slow_bars, analysis, centers, minute_bars, monitor_vars,
                realtime_vars, pool_vars, batch_system>>

\* analyze_multiple_symbols: one iteration of its loop over symbols, with the
\* call of analyze_symbol and the handler of the exception it may raise.
AnalyzeSymbol ==
    /\ batch_system = "integrated"
    /\ batch_index < Len(BatchSymbols)
    /\ LET symbol == BatchSymbols[batch_index + 1]
           loaded == minute_bars[symbol]
           tagged == with_symbol(loaded, symbol)
           found == collect_signals(tagged, symbol)
           interval_analysis == analyze_multilevel(tagged, symbol)
           result == integrated_result(tagged, symbol, found,
                                       interval_analysis)
       IN  IF Len(loaded) < batch_min_bars
           THEN \* result['signals'] is a list: signal_count > 0 raises
                /\ batch_results' = dict_set(batch_results, symbol,
                                        error_record(symbol, ListIntError))
                /\ UNCHANGED <<self_signals, analysis_results,
                               self_all_signals>>
           ELSE /\ self_signals' = self_signals \o found
                /\ analysis_results' =
                       IF interval_analysis = None THEN analysis_results
                       ELSE Append(analysis_results, interval_analysis)
                /\ IF result.raised
                   THEN /\ batch_results' =
                               dict_set(batch_results, symbol,
                                        error_record(symbol, result.error))
                        /\ UNCHANGED self_all_signals
                   ELSE /\ batch_results' =
                               dict_set(batch_results, symbol, result.value)
                        /\ self_all_signals' =
                               dict_set(self_all_signals, symbol, found)
    /\ batch_index' = batch_index + 1
    /\ UNCHANGED <<self_fractals, self_strokes, self_pivots, worker_pc,
                   worker_result, trade_signals>>
    /\ BatchFrame

\* What a step of a pool thread leaves alone besides its own writes.
WorkerFrame ==
    /\ UNCHANGED <<self_signals, batch_index, self_all_signals>>
    /\ BatchFrame

\* _analyze_symbol_sync: bars = self._load_bars_sync(symbol, start, end) and
\* the test of its length
WorkerLoad(symbol) ==
    /\ batch_system = "parallel"
    /\ worker_pc[symbol] = "queued"
    /\ IF Len(minute_bars[symbol]) < batch_min_bars
       THEN /\ worker_pc' = [worker_pc EXCEPT ![symbol] = "returned"]
            /\ worker_result' = dict_set(worker_result, symbol, None)
       ELSE /\ worker_pc' = [worker_pc EXCEPT ![symbol] = "fractals"]
            /\ UNCHANGED worker_result
    /\ UNCHANGED <<self_fractals, self_strokes, self_pivots, analysis_results,
                   trade_signals, batch_results>>
    /\ WorkerFrame

\* fractals = self.fractal_recognizer.recognize_from_bars(bars)
WorkerFractals(symbol) ==
    /\ batch_system = "parallel"
    /\ worker_pc[symbol] = "fractals"
    /\ self_fractals' = self_fractals \o recognize_from_bars(minute_bars[symbol])
    /\ worker_pc' = [worker_pc EXCEPT ![symbol] = "strokes"]
    /\ UNCHANGED <<self_strokes, self_pivots, analysis_results, trade_signals,
                   batch_results, worker_result>>
    /\ WorkerFrame

\* strokes = self.stroke_recognizer.recognize_from_bars(bars, symbol)
WorkerStrokes(symbol) ==
    /\ batch_system = "parallel"
    /\ worker_pc[symbol] = "strokes"
    /\ self_strokes' =
           IF Len(recognize_from_bars(minute_bars[symbol])) < 2
           THEN self_strokes
           ELSE self_strokes
                \o stroke_recognize_from_bars(minute_bars[symbol], symbol)
    /\ worker_pc' = [worker_pc EXCEPT ![symbol] = "pivots"]
    /\ UNCHANGED <<self_fractals, self_pivots, analysis_results, trade_signals,
                   batch_results, worker_result>>
    /\ WorkerFrame

\* pivots = self.pivot_detector.detect_from_bars(bars, symbol)
WorkerPivots(symbol) ==
    /\ batch_system = "parallel"
    /\ worker_pc[symbol] = "pivots"
    /\ self_pivots' = self_pivots \o detect_from_bars(minute_bars[symbol],
                                        symbol, "any", DefaultMinBars)
    /\ worker_pc' = [worker_pc EXCEPT ![symbol] = "signals"]
    /\ UNCHANGED <<self_fractals, self_strokes, analysis_results,
                   trade_signals, batch_results, worker_result>>
    /\ WorkerFrame

\* signals = self.signal_generator.analyze_bars(bars, symbol)
WorkerSignals(symbol) ==
    /\ batch_system = "parallel"
    /\ worker_pc[symbol] = "signals"
    /\ trade_signals' =
           IF trading_reaches_extend(minute_bars[symbol])
           THEN trade_signals
                \o trading_analyze_bars(minute_bars[symbol], symbol)
           ELSE trade_signals
    /\ worker_pc' = [worker_pc EXCEPT ![symbol] = "interval"]
    /\ UNCHANGED <<self_fractals, self_strokes, self_pivots, analysis_results,
                   batch_results, worker_result>>
    /\ WorkerFrame

\* interval_analysis = self.interval_analyzer.analyze_multilevel(bars, symbol),
\* then the dict result is built and returned, or the exception is caught
WorkerInterval(symbol) ==
    /\ batch_system = "parallel"
    /\ worker_pc[symbol] = "interval"
    /\ LET bs == minute_bars[symbol]
           interval_analysis == analyze_multilevel(bs, symbol)
       IN  /\ analysis_results' =
                  IF interval_analysis = None THEN analysis_results
                  ELSE Append(analysis_results, interval_analysis)
           /\ worker_result' =
                  dict_set(worker_result, symbol,
                           parallel_result(bs, symbol, recognize_from_bars(bs),
                               stroke_recognize_from_bars(bs, symbol),
                               detect_from_bars(bs, symbol, "any",
                                                DefaultMinBars),
                               trading_analyze_bars(bs, symbol),
                               interval_analysis))
    /\ worker_pc' = [worker_pc EXCEPT ![symbol] = "returned"]
    /\ UNCHANGED <<self_fractals, self_strokes, self_pivots, trade_signals,
                   batch_results>>
    /\ WorkerFrame

\* analyze_with_semaphore, on the event loop: result = await ...;
\* if result: results[symbol] = result
Collect(symbol) ==
    /\ batch_system = "parallel"
    /\ worker_pc[symbol] = "returned"
    /\ batch_results' = IF truthy(worker_result[symbol])
                        THEN dict_set(batch_results, symbol,
                                      worker_result[symbol])
                        ELSE batch_results
    /\ worker_pc' = [worker_pc EXCEPT ![symbol] = "done"]
    /\ UNCHANGED <<self_fractals, self_strokes, self_pivots, analysis_results,
                   trade_signals, worker_result>>
    /\ WorkerFrame

NextBatch ==
    \/ AnalyzeSymbol
    \/ \E symbol \in BatchSymbolSet : WorkerLoad(symbol)
    \/ \E symbol \in BatchSymbolSet : WorkerFractals(symbol)
    \/ \E symbol \in BatchSymbolSet : WorkerStrokes(symbol)
    \/ \E symbol \in BatchSymbolSet : WorkerPivots(symbol)
    \/ \E symbol \in BatchSymbolSet : WorkerSignals(symbol)
    \/ \E symbol \in BatchSymbolSet : WorkerInterval(symbol)
    \/ \E symbol \in BatchSymbolSet : Collect(symbol)

SpecBatch == InitBatch /\ [][NextBatch]_vars

-----------------------------------------------------------------------------
(* Properties of the fractal detectors *)

\* Bar k (0-based) is strictly higher than both neighbours.
StrictHigh(bs, k) == bs[k + 1].high > bs[k].high /\ bs[k + 1].high > bs[k + 2].high
\* Bar k (0-based) is strictly lower than both neighbours.
StrictLow(bs, k) == bs[k + 1].low < bs[k].low /\ bs[k + 1].low < bs[k + 2].low

Interior(bs) == 1..(Len(bs) - 2)

\* The two detector outputs as sequences of <<index, type>>.
EnginePairs == [k \in 1..Len(fractals) |->
                   <<fractals[k].index, fractals[k].fractal_type>>]
RecPairs == [k \in 1..Len(rec_fractals) |->
                <<rec_fractals[k].idx, rec_fractals[k].fractal_type>>]

LocalExtrema(pairs) ==
    \A k \in 1..Len(pairs) :
        /\ pairs[k][1] \in Interior(bars)
        /\ pairs[k][2] \in {"top", "bottom"}
        /\ pairs[k][2] = "top" => StrictHigh(bars, pairs[k][1])
        /\ pairs[k][2] = "bottom" => StrictLow(bars, pairs[k][1])

\* C1: every fractal returned by detect_fractals and by recognize_from_bars
\* sits at an interior index and is a strict local extremum of its kind
\* (top: high above both neighbours' highs; bottom: low below both lows).
C1_FractalsAreStrictExtrema ==
    /\ op = "detect_fractals" => LocalExtrema(EnginePairs)
    /\ op = "recognize_fractals" => LocalExtrema(RecPairs)

\* A detector returned a top and a bottom.
C1_Witness ==
    /\ op = "recognize_fractals"
    /\ \E j, k \in 1..Len(rec_fractals) :
          /\ rec_fractals[j].fractal_type = "top"
          /\ rec_fractals[k].fractal_type = "bottom"

Complete(pairs) ==
    /\ \A i \in Interior(bars) :
          /\ (\E k \in 1..Len(pairs) : pairs[k] = <<i, "top">>)
                <=> StrictHigh(bars, i)
          /\ (\E k \in 1..Len(pairs) : pairs[k] = <<i, "bottom">>)
                <=> (StrictLow(bars, i) /\ ~StrictHigh(bars, i))
    /\ \A j, k \in 1..Len(pairs) : j < k => pairs[j][1] < pairs[k][1]

\* C2: the detector is complete and tie-breaks to top: a top at i iff the top
\* condition holds at i, a bottom at i iff the bottom condition holds and the
\* top condition does not; indices strictly increase (one fractal per index).
C2_FractalsCompleteTopFirst ==
    /\ op = "detect_fractals" => Complete(EnginePairs)
    /\ op = "recognize_fractals" => Complete(RecPairs)

\* A bar satisfying both conditions was reported, as a top.
C2_Witness ==
    /\ op = "detect_fractals"
    /\ \E k \in 1..Len(fractals) :
          /\ StrictHigh(bars, fractals[k].index)
          /\ StrictLow(bars, fractals[k].index)
          /\ fractals[k].fractal_type = "top"

-----------------------------------------------------------------------------
(* Properties of the stroke builders *)

\* C3: every stroke of detect_strokes joins two fractals adjacent in the
\* fractal list, of different type, and its direction agrees with the prices
\* (up: bottom -> top with end.price > start.price; down: top -> bottom with
\* start.price > end.price).
C3_StrokesJoinOppositeFractals ==
    op = "detect_strokes" =>
        \A n \in 1..Len(strokes) :
            LET s == strokes[n] IN
            /\ \E k \in 1..(Len(fractals) - 1) :
                  s.start_fractal = fractals[k] /\ s.end_fractal = fractals[k + 1]
            /\ s.start_fractal.fractal_type # s.end_fractal.fractal_type
            /\ s.direction \in {"up", "down"}
            /\ s.direction = "up" =>
                  /\ s.start_fractal.fractal_type = "bottom"
                  /\ s.end_fractal.fractal_type = "top"
                  /\ s.end_fractal.price > s.start_fractal.price
            /\ s.direction = "down" =>
                  /\ s.start_fractal.fractal_type = "top"
                  /\ s.end_fractal.fractal_type = "bottom"
                  /\ s.start_fractal.price > s.end_fractal.price

\* One fractal list gave a stroke of each direction.
C3_Witness ==
    /\ op = "detect_strokes"
    /\ \E m, n \in 1..Len(strokes) :
          strokes[m].direction = "up" /\ strokes[n].direction = "down"

SpanHigh(bs, a, b) == CHOOSE h \in {bs[k + 1].high : k \in a..b} :
                          \A k \in a..b : bs[k + 1].high <= h
SpanLow(bs, a, b) == CHOOSE l \in {bs[k + 1].low : k \in a..b} :
                         \A k \in a..b : bs[k + 1].low >= l

\* C4: for every stroke of detect_strokes and of
\* StrokeRecognizer.recognize_from_bars, stroke.high is the maximum bar high
\* and stroke.low the minimum bar low over the bars from the start fractal's
\* index to the end fractal's index inclusive.
C4_StrokeExtremaOverSpan ==
    /\ op = "detect_strokes" =>
          \A n \in 1..Len(strokes) :
              LET a == strokes[n].start_fractal.index
                  b == strokes[n].end_fractal.index
              IN  /\ strokes[n].high = SpanHigh(bars, a, b)
                  /\ strokes[n].low = SpanLow(bars, a, b)
    /\ op = "recognize_strokes" =>
          \A n \in 1..Len(rec_strokes) :
              LET a == rec_strokes[n].start_fractal.idx
                  b == rec_strokes[n].end_fractal.idx
              IN  /\ rec_strokes[n].high = SpanHigh(bars, a, b)
                  /\ rec_strokes[n].low = SpanLow(bars, a, b)

-----------------------------------------------------------------------------
(* Properties of the bar-window pivot detector *)

\* The run of bar indices a pivot covers (minutes are the bar indices).
RunOf(p) == p.start_minute..p.end_minute

\* C5: every pivot of detect_from_bars covers a contiguous run of
\* bar_count >= min_bars bars that overlap pairwise, and pivot.high / pivot.low
\* are the maximum high / minimum low over exactly that run.
C5_PivotRunOverlapsPairwise ==
    op = "detect_pivots" =>
        \A n \in 1..Len(pivots) :
            LET p == pivots[n] IN
            /\ 0 <= p.start_minute /\ p.end_minute <= Len(bars) - 1
            /\ p.bar_count = p.end_minute - p.start_minute + 1
            /\ p.bar_count >= min_bars
            /\ \A i, j \in RunOf(p) :
                  /\ bars[i + 1].high >= bars[j + 1].low
                  /\ bars[j + 1].high >= bars[i + 1].low
            /\ p.high = SpanHigh(bars, p.start_minute, p.end_minute)
            /\ p.low = SpanLow(bars, p.start_minute, p.end_minute)

\* A pivot grown past min_bars whose high comes from a bar added by the
\* extension, in a list that also holds bars outside the pivot.
C5_Witness ==
    /\ op = "detect_pivots"
    /\ \E n \in 1..Len(pivots) :
          LET p == pivots[n]
              first == p.start_minute..(p.start_minute + min_bars - 1)
          IN  /\ p.bar_count > min_bars
              /\ p.bar_count < Len(bars)
              /\ \A i \in first : bars[i + 1].high < p.high

\* C6 as stated: the pivots of one call do not overlap, no bar index belongs
\* to the runs of two returned pivots, and pivots come in increasing bar order.
C6_PivotsShareNoBar ==
    op = "detect_pivots" =>
        \A j, k \in 1..Len(pivots) :
            j < k => pivots[j].end_minute < pivots[k].start_minute

\* C6 amended: pivots come in increasing bar order and two returned pivots
\* share at most one bar index, the end bar of the earlier one being the
\* first bar the later one may start at.
C6_PivotsShareAtMostEndBar ==
    op = "detect_pivots" =>
        \A j, k \in 1..Len(pivots) :
            j < k => /\ pivots[j].start_minute < pivots[k].start_minute
                     /\ pivots[j].end_minute <= pivots[k].start_minute
                     /\ Cardinality(RunOf(pivots[j]) \cap RunOf(pivots[k])) <= 1

\* Two pivots were returned by one call, the second starting on the bar the
\* first ends on.
C6_Witness ==
    /\ op = "detect_pivots"
    /\ Len(pivots) >= 2
    /\ pivots[1].end_minute = pivots[2].start_minute

-----------------------------------------------------------------------------
(* Properties of the signal classifier *)

\* positions, in the returned list, of the signals of one kind at one bar
SignalsAt(signal_type, point_type, minute) ==
    {n \in 1..Len(signals) :
        /\ signals[n].signal_type = signal_type
        /\ signals[n].point_type = point_type
        /\ signals[n].minute = minute}

\* fractal k (1-based position in the list) is the middle of a triplet
\* t1 -> t2 -> t1
MiddleOfTriplet(k, t1, t2) ==
    /\ 1 < k /\ k < Len(sig_fractals)
    /\ sig_fractals[k - 1].type = t1
    /\ sig_fractals[k].type = t2
    /\ sig_fractals[k + 1].type = t1

\* C7: every buy/1st signal is priced at the low of a bottom fractal whose
\* predecessor in the fractal list is a top and whose successor is a top
\* (confidence 0.75) or which is the most recent fractal (pending); and every
\* triplet top -> bottom -> top yields exactly one buy/1st signal, of
\* confidence 0.75.
C7_FirstBuyOnlyFromTopBottom ==
    op = "analyze_bars" =>
        /\ \A n \in 1..Len(signals) :
              (signals[n].signal_type = "buy" /\ signals[n].point_type = "1st")
              => \E k \in 2..Len(sig_fractals) :
                    /\ sig_fractals[k].type = "bottom"
                    /\ sig_fractals[k - 1].type = "top"
                    /\ signals[n].minute = sig_fractals[k].idx
                    /\ signals[n].price = bars[sig_fractals[k].idx + 1].low
                    /\ \/ /\ MiddleOfTriplet(k, "top", "bottom")
                          /\ signals[n].confidence = 75
                       \/ k = Len(sig_fractals)
        /\ \A k \in 1..Len(sig_fractals) :
              MiddleOfTriplet(k, "top", "bottom")
              => /\ Cardinality(SignalsAt("buy", "1st", sig_fractals[k].idx)) = 1
                 /\ \A n \in SignalsAt("buy", "1st", sig_fractals[k].idx) :
                       signals[n].confidence = 75

\* Two triplets top -> bottom -> top in one fractal list, each with its
\* buy/1st signal.
C7_Witness ==
    /\ op = "analyze_bars"
    /\ \E j, k \in 1..Len(sig_fractals) :
          /\ j < k
          /\ MiddleOfTriplet(j, "top", "bottom")
          /\ MiddleOfTriplet(k, "top", "bottom")
          /\ SignalsAt("buy", "1st", sig_fractals[j].idx) # {}
          /\ SignalsAt("buy", "1st", sig_fractals[k].idx) # {}

\* C8: when the fractal list ends with top -> bottom, the 1st-type buy
\* detector emits a pending buy/1st signal of confidence 0.60 at that
\* bottom's low.
C8_PendingBuyOnLatestBottom ==
    (/\ op = "analyze_bars"
     /\ Len(bars) >= analyze_min_bars
     /\ Len(sig_fractals) >= 2
     /\ sig_fractals[Len(sig_fractals)].type = "bottom"
     /\ sig_fractals[Len(sig_fractals) - 1].type = "top")
    => \E n \in SignalsAt("buy", "1st", sig_fractals[Len(sig_fractals)].idx) :
          /\ signals[n].confidence = 60
          /\ signals[n].price = bars[sig_fractals[Len(sig_fractals)].idx + 1].low

PivotBeforeLastBar == latest_pivot(SubSeq(bars, 1, Len(bars) - 1))

\* C10: whenever the most recent bar's low is at or below
\* pivot.low * (1 + pivotThreshold), its close above that band and its high
\* above pivot.high, analyze_bars returns a buy/2nd signal with
\* price = pivot.high, confidence 0.70 and volume_confirm = (volume > 0); the
\* consolidation/breakout fixture of the demo test triggers it.
C10_SecondBuyOnBreakout ==
    op = "analyze_bars" =>
        /\ (/\ Len(bars) >= second_buy_min_bars
            /\ PivotBeforeLastBar.found
            /\ 100 * bars[Len(bars)].low
                  <= (100 + pivot_threshold_pct) * PivotBeforeLastBar.low
            /\ 100 * bars[Len(bars)].close
                  > (100 + pivot_threshold_pct) * PivotBeforeLastBar.low
            /\ bars[Len(bars)].high > PivotBeforeLastBar.high)
           => \E n \in SignalsAt("buy", "2nd", Len(bars) - 1) :
                 /\ signals[n].price = PivotBeforeLastBar.high
                 /\ signals[n].confidence = 70
                 /\ signals[n].volume_confirm = (bars[Len(bars)].volume > 0)
        /\ with_symbol(bars, FixtureSymbol) = ConsolidationFixture
           => \E n \in 1..Len(signals) :
                 signals[n].signal_type = "buy" /\ signals[n].point_type = "2nd"

-----------------------------------------------------------------------------
(* C11: multi-level resonance (3rd-type buy) *)

\* syncCount: the number of the three series in which the 1st-type buy
\* detector returns at least one signal.
SyncCount ==
    LET series == <<bars_1m, bars_5m, bars_60m>>
    IN  Cardinality({k \in 1..3 :
            identify_first_buy_point(series[k], find_fractals(series[k]))
                # <<>>})

LatestCloseSum ==
    bars_1m[Len(bars_1m)].close + bars_5m[Len(bars_5m)].close
        + bars_60m[Len(bars_60m)].close

\* For three non-empty series exactly one buy/3rd signal is emitted iff
\* syncCount >= 2, with cycles_sync = syncCount, confidence =
\* min(95%, 70% + 10% * syncCount) and price = mean of the latest closes.
ThirdBuyIffSync ==
    (op = "third_buy" /\ bars_1m # <<>> /\ bars_5m # <<>> /\ bars_60m # <<>>)
    => /\ Len(third_signals) = (IF SyncCount >= 2 THEN 1 ELSE 0)
       /\ \A k \in 1..Len(third_signals) :
            LET sig == third_signals[k]
            IN  /\ sig.signal_type = "buy"
                /\ sig.point_type = "3rd"
                /\ sig.cycles_sync = SyncCount
                /\ sig.confidence = (IF 70 + 10 * SyncCount < 95
                                     THEN 70 + 10 * SyncCount ELSE 95)
                /\ 3 * sig.price.num = sig.price.den * LatestCloseSum

\* Scenario C: three series each showing the Scenario-A pattern give a
\* buy/3rd signal with cycles_sync = 3 and confidence >= 90%.
ScenarioCResonance ==
    (op = "third_buy" /\ bars_1m = UptrendFixture /\ bars_5m = UptrendFixture
        /\ bars_60m = UptrendFixture)
    => \E k \in 1..Len(third_signals) :
           /\ third_signals[k].point_type = "3rd"
           /\ third_signals[k].cycles_sync = 3
           /\ third_signals[k].confidence >= 90

\* C11: for three non-empty bar series the 3rd-type detector emits exactly one
\* buy/3rd signal iff at least two series have a 1st-type buy, with
\* cycles_sync, confidence and mean price as above; and three series showing
\* the Scenario-A pattern give cycles_sync = 3 and confidence >= 0.9.
C11_ThirdBuyResonance == ThirdBuyIffSync /\ ScenarioCResonance

\* A resonance of all three series has been reported.
ThirdBuyAllThree ==
    /\ op = "third_buy"
    /\ Len(third_signals) = 1
    /\ third_signals[1].cycles_sync = 3
    /\ bars_1m # bars_5m

-----------------------------------------------------------------------------
(* C12..C15: the interval analyzer *)

\* The signals of an analysis that are not "none".
ActiveSignals(a) ==
    {a.fastcycle_signal, a.midcycle_signal, a.slowcycle_signal} \ {"none"}

\* C12: every analysis produced by analyze_multilevel has a strength between
\* 0 and 1 (0..100 percent), and is_synchronized() is true iff at least one of
\* the three signals is not "none" and all signals that are not "none" are equal.
C12_StrengthBoundedSyncExact ==
    \A k \in 1..Len(analysis_results) :
        LET a == analysis_results[k]
        IN  /\ a.strength >= 0
            /\ a.strength <= 100
            /\ is_synchronized(a) <=> Cardinality(ActiveSignals(a)) = 1

\* All three windows report "buy": synchronized, and the bonus is capped.
C12_Witness ==
    /\ op = "analyze_multilevel"
    /\ Len(analysis_results) = 1
    /\ analysis_results[1].fastcycle_signal = "buy"
    /\ analysis_results[1].midcycle_signal = "buy"
    /\ analysis_results[1].slowcycle_signal = "buy"
    /\ is_synchronized(analysis_results[1])
    /\ analysis_results[1].strength = 100

BandHigh(w) ==
    CHOOSE h \in {w[k].high : k \in 1..Len(w)} :
        \A k \in 1..Len(w) : w[k].high <= h

BandLow(w) ==
    CHOOSE l \in {w[k].low : k \in 1..Len(w)} :
        \A k \in 1..Len(w) : w[k].low >= l

\* The signal of a window by the band rule: buy iff last close >
\* bandHigh * (1 + threshold), sell iff last close < bandLow * (1 - threshold);
\* permille is the threshold in thousandths.
BandSignal(w, permille) ==
    LET last_close == w[Len(w)].close
    IN  IF 1000 * last_close > BandHigh(w) * (1000 + permille) THEN "buy"
        ELSE IF 1000 * last_close < BandLow(w) * (1000 - permille) THEN "sell"
             ELSE "none"

\* C13: each window's signal is the one of the band rule with the window's
\* threshold (fast 1%, mid 0.5%, slow 0.2%).
C13_BreakoutAgainstBand ==
    (op = "analyze_multilevel" /\ analysis # None)
    => /\ analysis.fastcycle_signal = BandSignal(fast_bars, 10)
       /\ analysis.midcycle_signal = BandSignal(mid_bars, 5)
       /\ analysis.slowcycle_signal = BandSignal(slow_bars, 2)

\* The number of groups of M consecutive bars that cover n bars: ceil(n / M).
GroupCount(n, M) == (n + M - 1) \div M

\* The 1-based positions of the bars of group g.
GroupOf(g, n, M) ==
    {k \in 1..n : (g - 1) * M < k /\ k <= g * M}

RECURSIVE VolumeOver(_, _)
VolumeOver(bs, K) ==
    IF K = {} THEN 0
    ELSE LET k == CHOOSE x \in K : TRUE
         IN  bs[k].volume + VolumeOver(bs, K \ {k})

\* C14: aggregate_bars(bars, M) with M > 1 returns one bar per group of M
\* consecutive input bars (the last group may be shorter): ceil(n / M) bars
\* with open = first open, high = max high, low = min low, close = last
\* close, volume = sum of volumes; the total volume is conserved.
C14_AggregatePartitions ==
    (op = "aggregate_bars" /\ timeframe > 1)
    => LET n == Len(bars)
           M == timeframe
       IN  /\ Len(aggregated) = GroupCount(n, M)
           /\ \A g \in 1..Len(aggregated) :
                LET K == GroupOf(g, n, M)
                    first == CHOOSE k \in K : \A x \in K : k <= x
                    last == CHOOSE k \in K : \A x \in K : k >= x
                IN  /\ K # {}
                    /\ aggregated[g].open = bars[first].open
                    /\ aggregated[g].close = bars[last].close
                    /\ \A k \in K : /\ bars[k].high <= aggregated[g].high
                                    /\ bars[k].low >= aggregated[g].low
                    /\ \E k \in K : bars[k].high = aggregated[g].high
                    /\ \E k \in K : bars[k].low = aggregated[g].low
                    /\ aggregated[g].volume = VolumeOver(bars, K)
           /\ VolumeOver(aggregated, 1..Len(aggregated))
                = VolumeOver(bars, 1..n)

\* Three bars aggregated in pairs: a full group whose close is its second
\* bar's close and not its first bar's, and a shorter last group.
C14_Witness ==
    /\ op = "aggregate_bars"
    /\ timeframe = 2
    /\ Len(bars) = 3
    /\ Len(aggregated) = 2
    /\ bars[1].close # bars[2].close
    /\ aggregated[1].close = bars[2].close
    /\ aggregated[1].volume = 2100
    /\ aggregated[2].volume = bars[3].volume

\* C15: for every raw bar list of at least 30 bars analyze_multilevel
\* evaluates fully populated windows: 15 raw bars, 12 five-minute bars and
\* 4 sixty-minute bars.
C15_WindowsFullyPopulated ==
    (op = "analyze_multilevel" /\ Len(bars) >= 30)
    => /\ Len(fast_bars) = 15
       /\ Len(mid_bars) = 12
       /\ Len(slow_bars) = 4

-----------------------------------------------------------------------------
(* C16: insufficient input *)

\* C16: a bar list shorter than a component's minimum (fractal detectors: 3
\* bars; pivot detector: min_bars; signal classifier: 5 bars, or fewer than
\* three fractals; interval analyzer: 30 bars) gives that component's empty
\* result: an empty list, or no analysis.
C16_ShortInputGivesNoSignal ==
    /\ (op = "detect_fractals" /\ Len(bars) < 3) => fractals = <<>>
    /\ (op = "recognize_fractals" /\ Len(bars) < 3)
       => (rec_fractals = <<>> /\ self_fractals = <<>>)
    /\ (op = "detect_pivots" /\ Len(bars) < min_bars)
       => (pivots = <<>> /\ self_pivots = <<>>)
    /\ (op = "analyze_bars" /\ (Len(bars) < 5 \/ Len(sig_fractals) < 3))
       => (signals = <<>> /\ self_signals = <<>>)
    /\ (op = "analyze_multilevel" /\ Len(bars) < 30)
       => (analysis = None /\ analysis_results = <<>>)

\* The interval analyzer has been handed 29 bars and has returned no analysis.
C16_Witness ==
    /\ op = "analyze_multilevel"
    /\ Len(bars) = 29
    /\ analysis = None
    /\ analysis_results = <<>>

-----------------------------------------------------------------------------
(* C17..C19: the signal classifier's frame, order and Scenario A *)

\* C17: analyze_bars never mutates its input: after the call every bar of the
\* caller's list has the fields and values it had before.
C17_AnalyzeBarsKeepsInput == [][op' = "analyze_bars" => bars' = bars]_vars

\* C18: the signal list analyze_bars returns is in non-decreasing order of
\* the signals' bar time.
C18_SignalsInTimeOrder ==
    \A i, j \in 1..Len(signals) :
        i < j => signals[i].minute <= signals[j].minute

\* C19: Scenario A: on the 12-bar uptrend fixture the classifier finds at
\* least one top and one bottom fractal and returns at least one buy signal
\* of point class 1st.
C19_ScenarioAFirstBuy ==
    (op = "analyze_bars" /\ with_symbol(bars, FixtureSymbol) = UptrendFixture)
    => /\ \E k \in 1..Len(sig_fractals) : sig_fractals[k].type = "top"
       /\ \E k \in 1..Len(sig_fractals) : sig_fractals[k].type = "bottom"
       /\ \E k \in 1..Len(signals) :
            signals[k].signal_type = "buy" /\ signals[k].point_type = "1st"

-----------------------------------------------------------------------------
(* C20: Scenario B *)

\* C20: Scenario B: on the 7-bar consolidation fixture,
\* PivotDetector(min_bars = 5).detect_from_bars(bars, symbol) returns a pivot
\* with bar_count >= 5.
C20_ScenarioBPivot ==
    (op = "detect_pivots" /\ pivot_filter = "any" /\ min_bars = 5
        /\ bars = ConsolidationFixture)
    => \E k \in 1..Len(pivots) : pivots[k].bar_count >= 5

\* The fixture has been analysed with the default arguments: one pivot over
\* all seven bars, between 99 and 105.
C20_Witness ==
    /\ op = "detect_pivots"
    /\ pivot_filter = "any"
    /\ min_bars = 5
    /\ bars = ConsolidationFixture
    /\ Len(pivots) = 1
    /\ pivots[1].bar_count = 7
    /\ pivots[1].high = 105
    /\ pivots[1].low = 99

-----------------------------------------------------------------------------
(* C23: right-maximal pivots *)

\* C23: every pivot of detect_from_bars is right-maximal: a returned pivot
\* covering bars [s, e] either ends on the last bar of the input, or the
\* bars [s, e + 1] are not all pairwise overlapping.
C23_PivotsRightMaximal ==
    op = "detect_pivots" =>
        \A n \in 1..Len(pivots) :
            LET p == pivots[n] IN
            \/ p.end_minute = Len(bars) - 1
            \/ \E i, j \in p.start_minute..(p.end_minute + 1) :
                   \/ bars[i + 1].high < bars[j + 1].low
                   \/ bars[j + 1].high < bars[i + 1].low

\* A pivot that was extended past its first window and stopped before the
\* end of the input.
C23_Witness ==
    /\ op = "detect_pivots"
    /\ \E n \in 1..Len(pivots) :
          /\ pivots[n].bar_count > min_bars
          /\ pivots[n].end_minute < Len(bars) - 1

-----------------------------------------------------------------------------
(* C29: only 1st-type signals leave analyze_bars *)

-----------------------------------------------------------------------------
(* C30: the classifier's fractal list against the FractalDetector *)

\* C30: the fractal list analyze_bars works on (_find_fractals) is the same
\* sequence of (index, type) pairs as ChanTheoryEngine.detect_fractals
\* returns for the same bars.
C30_FindFractalsAgreesWithDetector ==
    (op = "analyze_bars" /\ Len(bars) >= analyze_min_bars) =>
        [k \in 1..Len(sig_fractals) |->
            <<sig_fractals[k].idx, sig_fractals[k].type>>]
        = [k \in 1..Len(detect_fractals(bars)) |->
            <<detect_fractals(bars)[k].index,
              detect_fractals(bars)[k].fractal_type>>]

-----------------------------------------------------------------------------
(* C28: the interval analyzer on well-formed bars *)

\* every bar has low <= close <= high
WellFormed(bs) ==
    \A k \in 1..Len(bs) : bs[k].low <= bs[k].close /\ bs[k].close <= bs[k].high

-----------------------------------------------------------------------------
(* C22: the stroke-window center detector *)

\* min / max over the highs / lows of the strokes i, i + 1, i + 2 (1-based)
WindowHigh(i) ==
    CHOOSE h \in {strokes[j].high : j \in i..(i + 2)} :
        \A j \in i..(i + 2) : h <= strokes[j].high

WindowLow(i) ==
    CHOOSE l \in {strokes[j].low : j \in i..(i + 2)} :
        \A j \in i..(i + 2) : l >= strokes[j].low

\* the windows of 3 consecutive strokes with min(highs) > max(lows)
ValidWindows == {i \in 1..(Len(strokes) - 2) : WindowHigh(i) > WindowLow(i)}

\* C22: detect_centers returns, in stroke order, exactly one Center for each
\* window of 3 consecutive strokes whose min(highs) > max(lows), with
\* center.high = min of the three highs and center.low = max of the three
\* lows, and nothing for the other windows; every Center has high > low.
C22_CentersAreValidWindows ==
    op = "detect_centers" =>
        /\ Len(centers) = Cardinality(ValidWindows)
        /\ \E f \in [1..Len(centers) -> ValidWindows] :
              /\ \A j, k \in 1..Len(centers) : j < k => f[j] < f[k]
              /\ \A k \in 1..Len(centers) :
                    /\ centers[k].high = WindowHigh(f[k])
                    /\ centers[k].low = WindowLow(f[k])
                    /\ centers[k].start_time = strokes[f[k]].start_fractal.time
                    /\ centers[k].end_time = strokes[f[k] + 2].end_fractal.time
        /\ \A k \in 1..Len(centers) : centers[k].high > centers[k].low

\* Four strokes whose first window has min(highs) = max(lows) and is left
\* out, while the second window gives a Center.
C22_Witness ==
    /\ op = "detect_centers"
    /\ Len(strokes) = 4
    /\ WindowHigh(1) = WindowLow(1)
    /\ Len(centers) = 1
    /\ centers[1].start_time = strokes[2].start_fractal.time

-----------------------------------------------------------------------------
(* C24: incremental fractal monitoring *)

\* C24: while a symbol's series only grows by appended bars, after every
\* check_for_new_fractals call each fractal of the stored series has been
\* returned as new by exactly one call: none twice, none missed.
C24_EachFractalReportedOnce ==
    op = "check_for_new_fractals" =>
        \A symbol \in DOMAIN minute_bars :
            LET stored == minute_bars[symbol] IN
            Len(stored) >= 3 =>
                \A i \in Interior(stored) :
                    (StrictHigh(stored, i) \/ StrictLow(stored, i)) =>
                        Cardinality({n \in 1..Len(alerts) :
                            /\ alerts[n].symbol = symbol
                            /\ alerts[n].idx = i}) = 1

-----------------------------------------------------------------------------
(* C25: signal de-duplication of the realtime monitor *)

\* C25: with monitor_5f and monitor_1f running in any interleaving, a signal
\* key (symbol, signal type, signal time) causes at most one
\* send_signal_email call and passes the de-duplication test at most once.
C25_SignalKeyHandledOnce ==
    \A key \in DOMAIN handled : handled[key] <= 1 /\ emails[key] <= 1

-----------------------------------------------------------------------------
(* C26: termination of call_with_retry *)

\* C26: on a non-empty API pool call_with_retry always terminates: it
\* returns the wrapped function's result on the first successful attempt,
\* and otherwise returns None after at most max_retries failed attempts,
\* rotate_api returning after each failure.
C26_CallWithRetryTerminates ==
    /\ apis # <<>> ~> retry_pc = "returned"
    /\ [](func_calls <= max_retries)
    /\ []((retry_pc = "returned" /\ retry_result # None) => func_calls >= 1)

-----------------------------------------------------------------------------
(* Properties of the batch analysis *)

\* The symbols whose analysis left an entry in an accumulated list.
WritersOf(list) == {list[k].symbol : k \in 1..Len(list)}

\* The pool thread of the symbol is inside the analysis part of
\* _analyze_symbol_sync.
Analysing(symbol) ==
    worker_pc[symbol] \in {"fractals", "strokes", "pivots", "signals",
                           "interval"}

SharedBy(s1, s2, list) == s1 \in WritersOf(list) /\ s2 \in WritersOf(list)

\* C21: in the batch analysis of the parallel analyzer, the workers of two
\* different symbols that run at the same time have written no common object:
\* none of the lists kept by the fractal recognizer, the stroke recognizer, the
\* pivot detector, the signal generator and the interval analyzer holds
\* entries of both while both are still analysing.
C21_WorkersShareNoAnalyzerState ==
    batch_system = "parallel" =>
        \A s1, s2 \in BatchSymbolSet :
            (s1 # s2 /\ Analysing(s1) /\ Analysing(s2)) =>
                /\ ~SharedBy(s1, s2, self_fractals)
                /\ ~SharedBy(s1, s2, self_strokes)
                /\ ~SharedBy(s1, s2, self_pivots)
                /\ ~SharedBy(s1, s2, trade_signals)
                /\ ~SharedBy(s1, s2, analysis_results)

\* The batch analysis has returned its dict results.
BatchFinished ==
    IF batch_system = "integrated" THEN batch_index = Len(BatchSymbols)
    ELSE /\ batch_system = "parallel"
         /\ \A symbol \in BatchSymbolSet : worker_pc[symbol] = "done"

\* A dict carrying a signal count and an interval strength and no error.
IsResultRecord(r) ==
    /\ {"signals", "interval_strength"} \subseteq DOMAIN r
    /\ "error" \notin DOMAIN r

\* C27: once the batch analysis of either system has returned, every requested
\* symbol whose stored series has at least 5 bars has an entry in the results,
\* and that entry is a result record with the signal count and the interval
\* strength, not an error record.
C27_BatchGivesRecordPerSymbol ==
    BatchFinished =>
        \A symbol \in BatchSymbolSet :
            Len(minute_bars[symbol]) >= batch_min_bars =>
                /\ symbol \in DOMAIN batch_results
                /\ IsResultRecord(batch_results[symbol])

=============================================================================
